---- MODULE Spec2Model ----
(***************************************************************************)
(* Scoring, classification, divergence detection and snapshot orchestration *)
(* of the retail stock analyzer (src/src/analyzers, src/src/core).          *)
(*                                                                         *)
(* Snapshot fields are integers in a fixed unit:                           *)
(*   sentiment_score, bollinger_position, pattern_confidence : hundredths  *)
(*   debt_to_equity, current_ratio                           : tenths      *)
(*   market_cap, shares_outstanding, float_shares            : millions    *)
(*   every other snapshot field                              : its value   *)
(* A weight is an integer number of hundredths (25 is the setting 0.25).   *)
(* Every number the program computes from them (a domain score, the total  *)
(* score, a confidence, the strength and expected move of a signal, the    *)
(* score of an alert, a ranking key) is a Python float, computed operation *)
(* by operation in the order of the source.                                *)
(* Python None in a numeric field is NONE, in a string field NoneStr, in a *)
(* float the program computes NoneFloat.                                   *)
(***************************************************************************)
EXTENDS Integers, Sequences, FiniteSets, TLC

NONE == -1000000
NoneStr == "None"

Min(a, b) == IF a < b THEN a ELSE b
Max(a, b) == IF a > b THEN a ELSE b

\* Python truthiness of an Optional[float]: None and 0 are both falsy.
Truthy(x) == x # NONE /\ x # 0

(***************************************************************************)
(* Python float arithmetic (IEEE 754 binary64, round half to even), as far *)
(* as the analyzers need it: magnitudes between 2^-200 and 2^200, no       *)
(* infinities, no NaN, no negative zero.  A float is (-1)^neg * m * 2^e    *)
(* with 2^52 <= m < 2^53, or zero.  A natural number wider than one        *)
(* integer is kept as eight limbs of 14 bits, least significant first.     *)
(***************************************************************************)
Limb == 2^14
Limbs == 1..8
ZeroNat == [i \in Limbs |-> 0]
OneNat == [i \in Limbs |-> IF i = 1 THEN 1 ELSE 0]
LimbOf(n, i) == IF i \in Limbs THEN n[i] ELSE 0

\* bit b of n, counted from 0
BitOf(n, b) == IF b < 0 THEN 0 ELSE (LimbOf(n, (b \div 14) + 1) \div 2^(b % 14)) % 2

\* the 14 bits of n from bit pos upward, pos >= -112
Window(n, pos) ==
    LET q == ((pos + 112) \div 14) - 8
        r == (pos + 112) % 14
    IN  (LimbOf(n, q + 1) \div 2^r) + (LimbOf(n, q + 2) % 2^r) * 2^(14 - r)

\* n * 2^k cut to eight limbs, and n \div 2^k
ShiftLeft(n, k) == [i \in Limbs |-> Window(n, 14 * (i - 1) - k)]
ShiftRight(n, k) == [i \in Limbs |-> Window(n, 14 * (i - 1) + k)]

\* number of bits of n
BitLength(n) ==
    IF n = ZeroNat THEN 0
    ELSE LET top == CHOOSE i \in Limbs : n[i] # 0 /\ \A j \in Limbs : j > i => n[j] = 0
             bits == CHOOSE k \in 1..14 : 2^(k - 1) <= n[top] /\ n[top] < 2^k
         IN  14 * (top - 1) + bits

\* the limbs of a number given by column sums, carries and borrows passed
\* upward
RECURSIVE Propagate(_, _, _)
Propagate(columns, i, carry) ==
    IF i > 8 THEN << >>
    ELSE LET t == columns[i] + carry
             low == ((t % Limb) + Limb) % Limb
         IN  << low >> \o Propagate(columns, i + 1, (t - low) \div Limb)

AddNat(a, b) == Propagate([i \in Limbs |-> a[i] + b[i]], 1, 0)
\* a - b for a >= b
SubNat(a, b) == Propagate([i \in Limbs |-> a[i] - b[i]], 1, 0)

\* a * b for a, b < 2^56
MulNat(a, b) ==
    LET Term(i, k) == IF (k + 1 - i) \in 1..4 THEN a[i] * b[k + 1 - i] ELSE 0
    IN  Propagate([k \in Limbs |-> Term(1, k) + Term(2, k) + Term(3, k) + Term(4, k)],
                  1, 0)

\* quotient and remainder of the limbs 1..i of n, with rem in front, by
\* q < 2^17
RECURSIVE DivFrom(_, _, _, _)
DivFrom(n, q, i, rem) ==
    IF i = 0 THEN [quotient |-> << >>, remainder |-> rem]
    ELSE LET cur == rem * Limb + n[i]
             rest == DivFrom(n, q, i - 1, cur % q)
         IN  [quotient |-> Append(rest.quotient, cur \div q),
              remainder |-> rest.remainder]

NatGreater(a, b) ==
    \E i \in Limbs : a[i] > b[i] /\ \A j \in Limbs : j > i => a[j] = b[j]

\* the limbs of an integer 0 <= n < 2^28
NatOf(n) == [i \in Limbs |-> IF i = 1 THEN n % Limb ELSE IF i = 2 THEN n \div Limb ELSE 0]

FloatZero == [neg |-> FALSE, m |-> ZeroNat, e |-> 0]
IsZero(a) == a.m = ZeroNat

\* the float nearest to (-1)^neg * n * 2^e (plus a nonzero fraction below the
\* last bit of n when sticky), ties to even; n # 0
RoundToFloat(neg, n, e, sticky) ==
    LET len == BitLength(n)
        k == len - 53
    IN  IF k <= 0 THEN [neg |-> neg, m |-> ShiftLeft(n, -k), e |-> e + k]
        ELSE LET q == ShiftRight(n, k)
                 half == BitOf(n, k - 1) = 1
                 below == sticky \/ ShiftLeft(n, 112 - (k - 1)) # ZeroNat
                 odd == BitOf(n, k) = 1
                 m == IF half /\ (below \/ odd) THEN AddNat(q, OneNat) ELSE q
             IN  IF BitLength(m) = 54
                 THEN [neg |-> neg, m |-> ShiftRight(m, 1), e |-> e + k + 1]
                 ELSE [neg |-> neg, m |-> m, e |-> e + k]

\* the float of p / q for integers |p| < 2^28 and 0 < q < 2^17: a decimal
\* literal (0.7 is 7 / 10), an int turned float (q = 1), int / int
FloatOfRatio(p, q) ==
    IF p = 0 THEN FloatZero
    ELSE LET mag == IF p < 0 THEN 0 - p ELSE p
             d == DivFrom(ShiftLeft(NatOf(mag), 70), q, 8, 0)
         IN  RoundToFloat(p < 0, d.quotient, -70, d.remainder # 0)

FloatOfInt(n) == FloatOfRatio(n, 1)

FloatNeg(a) == IF IsZero(a) THEN a ELSE [a EXCEPT !.neg = ~@]
FloatAbs(a) == [a EXCEPT !.neg = FALSE]

\* |a| > |b|
MagGreater(a, b) ==
    IF IsZero(a) THEN FALSE
    ELSE IF IsZero(b) THEN TRUE
    ELSE a.e > b.e \/ (a.e = b.e /\ NatGreater(a.m, b.m))

FloatLess(a, b) ==
    IF a.neg /\ ~b.neg THEN TRUE
    ELSE IF ~a.neg /\ b.neg THEN FALSE
    ELSE IF a.neg THEN MagGreater(a, b)
    ELSE MagGreater(b, a)
FloatGreater(a, b) == FloatLess(b, a)
FloatLeq(a, b) == ~FloatLess(b, a)
FloatGeq(a, b) == ~FloatLess(a, b)

\* min(a, b) and max(a, b) of Python return the first argument on a tie
FloatMin(a, b) == IF FloatLess(b, a) THEN b ELSE a
FloatMax(a, b) == IF FloatGreater(b, a) THEN b ELSE a

\* a + b; an operand more than 2^55 times smaller than the other is absorbed
FloatAdd(a, b) ==
    IF IsZero(a) THEN b
    ELSE IF IsZero(b) THEN a
    ELSE LET hi == IF a.e >= b.e THEN a ELSE b
             lo == IF a.e >= b.e THEN b ELSE a
             d == hi.e - lo.e
             big == ShiftLeft(hi.m, d)
         IN  IF d > 55 THEN hi
             ELSE IF hi.neg = lo.neg
             THEN RoundToFloat(hi.neg, AddNat(big, lo.m), lo.e, FALSE)
             ELSE IF big = lo.m THEN FloatZero
             ELSE IF NatGreater(big, lo.m)
             THEN RoundToFloat(hi.neg, SubNat(big, lo.m), lo.e, FALSE)
             ELSE RoundToFloat(lo.neg, SubNat(lo.m, big), lo.e, FALSE)

FloatSub(a, b) == FloatAdd(a, FloatNeg(b))

FloatMul(a, b) ==
    IF IsZero(a) \/ IsZero(b) THEN FloatZero
    ELSE RoundToFloat(a.neg # b.neg, MulNat(a.m, b.m), a.e + b.e, FALSE)

\* a / q for an integer 0 < q < 2^17
FloatDivInt(a, q) ==
    IF IsZero(a) THEN FloatZero
    ELSE LET d == DivFrom(ShiftLeft(a.m, 56), q, 8, 0)
         IN  RoundToFloat(a.neg, d.quotient, a.e - 56, d.remainder # 0)

\* the integer nearest to a * unit (0 < unit < 2^28), halves away from zero:
\* the float read in 1/unit
Rounded(a, unit) ==
    IF IsZero(a) THEN 0
    ELSE LET n == MulNat(a.m, NatOf(unit))
             q == IF a.e >= 0 THEN ShiftLeft(n, a.e)
                  ELSE AddNat(ShiftRight(n, 0 - a.e),
                              NatOf(BitOf(n, (0 - a.e) - 1)))
             mag == q[1] + q[2] * Limb + q[3] * Limb * Limb
         IN  IF a.neg THEN 0 - mag ELSE mag

\* expected_move=None
NoneFloat == [neg |-> FALSE, m |-> ZeroNat, e |-> NONE]

\* float literals of the source
One == FloatOfInt(1)
Hundred == FloatOfInt(100)
max_score == Hundred

\* The body of a "try: ... except Exception: print(...)" block that adds to
\* a running score: the statements run in order and the first one that
\* raises ends the block, keeping what was added before it.
RECURSIVE AccumulateUntilRaise(_, _, _)
AccumulateUntilRaise(steps, i, score) ==
    IF i > Len(steps) THEN score
    ELSE IF steps[i].raises THEN score
    ELSE AccumulateUntilRaise(steps, i + 1, FloatAdd(score, steps[i].points))

Step(raises, points) == [raises |-> raises, points |-> points]

\* a clamp without the lower bound (what the scorers do not do)
ClampNoFloor(score) == FloatMin(score, max_score)
\* return max(0, min(score, self.max_score))
Clamp(score) == FloatMax(FloatZero, FloatMin(score, max_score))

(***************************************************************************)
(* SocialSentimentScorer                                                   *)
(***************************************************************************)
bullish_keywords == {"moon", "rocket", "diamond", "hodl", "squeeze", "buy", "calls"}
bearish_keywords == {"sell", "puts", "crash", "dump"}

\* str.lower() on the keywords the model draws from
KeywordDomain == {"moon", "SQUEEZE", "Dump", "stock"}
Lower(k) ==
    CASE k = "SQUEEZE" -> "squeeze"
      [] k = "Dump" -> "dump"
      [] OTHER -> k

RECURSIVE KeywordScore(_, _)
KeywordScore(kws, i) ==
    IF i > Len(kws) THEN 0
    ELSE (IF Lower(kws[i]) \in bullish_keywords THEN 2
          ELSE IF Lower(kws[i]) \in bearish_keywords THEN -2
          ELSE 0) + KeywordScore(kws, i + 1)

MentionsPoints(m) ==
    IF m > 1000 THEN 30
    ELSE IF m > 500 THEN 25
    ELSE IF m > 200 THEN 20
    ELSE IF m > 100 THEN 15
    ELSE IF m > 50 THEN 10
    ELSE IF m > 10 THEN 5
    ELSE 0

InfluencerPoints(n) ==
    IF n > 20 THEN 15
    ELSE IF n > 10 THEN 10
    ELSE IF n > 5 THEN 5
    ELSE 0

SocialSteps(social) ==
    << Step(FALSE, FloatMin(FloatMul(FloatAdd(FloatOfRatio(social.sentiment_score, 100), One),
                                     FloatOfInt(20)),
                            FloatOfInt(40))),
       Step(FALSE, FloatOfInt(MentionsPoints(social.mentions))),
       Step(FALSE, FloatOfInt(IF social.volume_trend = "bullish" THEN 15
                              ELSE IF social.volume_trend = "neutral" THEN 7
                              ELSE 0)),
       Step(social.influencer_mentions = NONE,
            FloatOfInt(InfluencerPoints(social.influencer_mentions))),
       Step(FALSE, FloatOfInt(Max(-10, Min(KeywordScore(social.top_keywords, 1), 10)))) >>

score_sentiment(social) == Clamp(AccumulateUntilRaise(SocialSteps(social), 1, FloatZero))

(***************************************************************************)
(* TechnicalAnalysisScorer                                                 *)
(***************************************************************************)
RsiPoints(rsi) ==
    IF 30 <= rsi /\ rsi <= 70 THEN 20
    ELSE IF (20 <= rsi /\ rsi < 30) \/ (70 < rsi /\ rsi <= 80) THEN 15
    ELSE IF rsi < 20 THEN 25
    ELSE IF rsi > 80 THEN 5
    ELSE 0

BollingerPoints(bb_pos) ==
    IF bb_pos < 20 THEN 15
    ELSE IF 20 <= bb_pos /\ bb_pos <= 80 THEN 10
    ELSE IF bb_pos > 80 THEN 5
    ELSE 0

\* dict.get(key, default) on moving_averages, a function on a set of labels
DictGet(d, key, default) == IF key \in DOMAIN d THEN d[key] ELSE default

MovingAveragePoints(technical) ==
    LET ma_data == technical.moving_averages
        current_price == technical.price
        sma_20 == DictGet(ma_data, "sma_20", current_price)
        sma_50 == DictGet(ma_data, "sma_50", current_price)
    IN  IF DOMAIN ma_data = {} THEN 0
        ELSE IF current_price > sma_20 /\ sma_20 > sma_50 THEN 5
        ELSE IF current_price > sma_20 THEN 2
        ELSE 0

TechnicalSteps(technical) ==
    << Step(technical.rsi = NONE, FloatOfInt(RsiPoints(technical.rsi))),
       Step(FALSE, FloatOfInt(IF technical.macd_signal = "bullish" THEN 15
                              ELSE IF technical.macd_signal = "neutral" THEN 7
                              ELSE 0)),
       Step(technical.bollinger_position = NONE,
            FloatOfInt(BollingerPoints(technical.bollinger_position))),
       Step(FALSE, FloatOfInt(IF technical.trend_direction = "bullish" THEN 20
                              ELSE IF technical.trend_direction = "neutral" THEN 10
                              ELSE 0)),
       Step(FALSE, IF technical.pattern_detected \notin {NoneStr, ""}
                   THEN FloatMul(FloatOfRatio(technical.pattern_confidence, 100),
                                 FloatOfInt(15))
                   ELSE FloatZero),
       Step(FALSE, IF technical.volume_spike THEN FloatOfInt(10) ELSE FloatZero),
       Step(FALSE, FloatOfInt(MovingAveragePoints(technical))) >>

score_technical(technical) ==
    Clamp(AccumulateUntilRaise(TechnicalSteps(technical), 1, FloatZero))

(***************************************************************************)
(* FundamentalAnalysisScorer                                               *)
(***************************************************************************)
score_pe_ratio(pe_ratio) ==
    IF pe_ratio = NONE \/ pe_ratio < 0 THEN 1
    ELSE IF pe_ratio < 15 THEN 9
    ELSE IF pe_ratio < 25 THEN 7
    ELSE IF pe_ratio < 40 THEN 5
    ELSE IF pe_ratio < 60 THEN 3
    ELSE 1

score_ps_ratio(ps_ratio) ==
    IF ps_ratio = NONE THEN 5
    ELSE IF ps_ratio < 2 THEN 9
    ELSE IF ps_ratio < 5 THEN 7
    ELSE IF ps_ratio < 10 THEN 5
    ELSE IF ps_ratio < 20 THEN 3
    ELSE 1

score_growth(growth_rate) ==
    IF growth_rate > 50 THEN 10
    ELSE IF growth_rate > 25 THEN 8
    ELSE IF growth_rate > 15 THEN 6
    ELSE IF growth_rate > 5 THEN 5
    ELSE IF growth_rate > 0 THEN 3
    ELSE 1

score_profit_margin(margin) ==
    IF margin > 20 THEN 10
    ELSE IF margin > 15 THEN 8
    ELSE IF margin > 10 THEN 6
    ELSE IF margin > 5 THEN 4
    ELSE IF margin > 0 THEN 2
    ELSE 1

\* debt_ratio in tenths
score_debt_ratio(debt_ratio) ==
    IF debt_ratio < 3 THEN 9
    ELSE IF debt_ratio < 6 THEN 7
    ELSE IF debt_ratio < 10 THEN 5
    ELSE IF debt_ratio < 20 THEN 3
    ELSE 1

\* current_ratio in tenths
score_current_ratio(current_ratio) ==
    IF current_ratio > 25 THEN 9
    ELSE IF current_ratio > 15 THEN 7
    ELSE IF current_ratio > 10 THEN 5
    ELSE IF current_ratio > 5 THEN 3
    ELSE 1

score_roe(roe) ==
    IF roe > 20 THEN 10
    ELSE IF roe > 15 THEN 8
    ELSE IF roe > 10 THEN 6
    ELSE IF roe > 5 THEN 4
    ELSE IF roe > 0 THEN 2
    ELSE 1

FundamentalRaw(fundamental) ==
    LET \* (pe_score + ps_score) / 2 * 3
        valuation_score ==
            FloatMul(FloatOfRatio(score_pe_ratio(fundamental.pe_ratio)
                                    + score_ps_ratio(fundamental.ps_ratio), 2),
                     FloatOfInt(3))
        \* growth_score * 25 / 10
        growth ==
            IF fundamental.revenue_growth_yoy # NONE
            THEN FloatOfRatio(score_growth(fundamental.revenue_growth_yoy) * 25, 10)
            ELSE FloatZero
        profit ==
            IF fundamental.profit_margin # NONE
            THEN FloatOfRatio(score_profit_margin(fundamental.profit_margin) * 25, 10)
            ELSE FloatZero
        health_score ==
            (IF fundamental.debt_to_equity # NONE
             THEN score_debt_ratio(fundamental.debt_to_equity) ELSE 0)
            + (IF fundamental.current_ratio # NONE
               THEN score_current_ratio(fundamental.current_ratio) ELSE 0)
            + (IF fundamental.roe # NONE THEN score_roe(fundamental.roe) ELSE 0)
        health_components ==
            Cardinality({f \in {"debt_to_equity", "current_ratio", "roe"} :
                            fundamental[f] # NONE})
        \* (health_score / health_components) * 20 / 10
        health ==
            IF health_components > 0
            THEN FloatDivInt(FloatMul(FloatOfRatio(health_score, health_components),
                                      FloatOfInt(20)),
                             10)
            ELSE FloatZero
    IN  FloatAdd(FloatAdd(FloatAdd(FloatAdd(FloatZero, valuation_score), growth), profit),
                 health)

score_fundamental(fundamental) == Clamp(FundamentalRaw(fundamental))

(***************************************************************************)
(* AnalystCoverageScorer                                                   *)
(***************************************************************************)
RatingPoints(rating) ==
    CASE rating = "strong_buy" -> 40
      [] rating = "buy" -> 30
      [] rating = "hold" -> 15
      [] rating = "sell" -> 5
      [] rating = "strong_sell" -> 0
      [] OTHER -> 15

UpsidePoints(upside) ==
    IF upside > 50 THEN 30
    ELSE IF upside > 25 THEN 25
    ELSE IF upside > 15 THEN 20
    ELSE IF upside > 5 THEN 15
    ELSE IF upside > 0 THEN 10
    ELSE IF upside > -10 THEN 5
    ELSE 0

BreadthPoints(n) ==
    IF n > 20 THEN 15
    ELSE IF n > 15 THEN 12
    ELSE IF n > 10 THEN 10
    ELSE IF n > 5 THEN 7
    ELSE IF n > 2 THEN 5
    ELSE 0

NetChangePoints(net_changes) ==
    IF net_changes > 3 THEN 15
    ELSE IF net_changes > 1 THEN 10
    ELSE IF net_changes = 1 THEN 5
    ELSE IF net_changes = 0 THEN 3
    ELSE IF net_changes < -1 THEN -5
    ELSE 0

AnalystSteps(analyst) ==
    << Step(FALSE, FloatOfInt(RatingPoints(analyst.consensus_rating))),
       Step(analyst.price_target_upside = NONE,
            FloatOfInt(UpsidePoints(analyst.price_target_upside))),
       Step(FALSE, FloatOfInt(BreadthPoints(analyst.num_analysts))),
       Step(FALSE, FloatOfInt(NetChangePoints(analyst.recent_upgrades
                                                - analyst.recent_downgrades))) >>

score_analyst_coverage(analyst) ==
    Clamp(AccumulateUntilRaise(AnalystSteps(analyst), 1, FloatZero))

(***************************************************************************)
(* StockStructureScorer                                                    *)
(***************************************************************************)
ShortInterestPoints(si) ==
    IF si > 30 THEN 25
    ELSE IF si > 20 THEN 20
    ELSE IF si > 15 THEN 15
    ELSE IF si > 10 THEN 10
    ELSE IF si > 5 THEN 5
    ELSE 0

\* float_ratio = float_shares / shares_outstanding against 0.3, 0.5, 0.7
FloatPoints(structure) ==
    IF structure.shares_outstanding > 0 /\ structure.float_shares > 0
    THEN IF structure.float_shares * 10 < 3 * structure.shares_outstanding THEN 15
         ELSE IF structure.float_shares * 10 < 5 * structure.shares_outstanding THEN 12
         ELSE IF structure.float_shares * 10 < 7 * structure.shares_outstanding THEN 8
         ELSE 5
    ELSE 0

UtilizationPoints(u) ==
    IF Truthy(u)
    THEN IF u > 90 THEN 10
         ELSE IF u > 80 THEN 8
         ELSE IF u > 70 THEN 6
         ELSE IF u > 60 THEN 4
         ELSE 0
    ELSE 0

CostToBorrowPoints(c) ==
    IF Truthy(c)
    THEN IF c > 50 THEN 10
         ELSE IF c > 25 THEN 8
         ELSE IF c > 10 THEN 6
         ELSE IF c > 5 THEN 4
         ELSE 0
    ELSE 0

StructureRaw(structure) ==
    FloatAdd(FloatAdd(FloatAdd(FloatAdd(
        FloatAdd(FloatZero,
                 FloatMul(FloatOfInt(structure.short_squeeze_score), FloatOfRatio(4, 10))),
        FloatOfInt(ShortInterestPoints(structure.short_interest))),
        FloatOfInt(FloatPoints(structure))),
        FloatOfInt(UtilizationPoints(structure.utilization_rate))),
        FloatOfInt(CostToBorrowPoints(structure.cost_to_borrow)))

score_stock_structure(structure) == Clamp(StructureRaw(structure))

(***************************************************************************)
(* Default snapshots substituted when a provider task fails                *)
(* (the _get_default_ methods of StockAnalyzer).  Fields the core never    *)
(* reads (timestamps, price targets, ownership, ...) are omitted.          *)
(***************************************************************************)
EmptyDict == [k \in {} |-> 0]

get_default_social_sentiment ==
    [kind |-> "SocialSentiment", platform |-> "aggregated", mentions |-> 0,
     sentiment_score |-> 0, volume_trend |-> "neutral", top_keywords |-> << >>,
     influencer_mentions |-> 0]

get_default_technical_analysis ==
    [kind |-> "TechnicalAnalysis", price |-> 0, volume |-> 0, rsi |-> 50,
     macd_signal |-> "neutral", bollinger_position |-> 50,
     moving_averages |-> EmptyDict, pattern_detected |-> NoneStr,
     pattern_confidence |-> 0, trend_direction |-> "neutral", volume_spike |-> FALSE]

\* a default that reports zeros where the code leaves the fields absent
DefaultFundamentalZeroRatios ==
    [kind |-> "FundamentalData", market_cap |-> 0, pe_ratio |-> 0, ps_ratio |-> 0,
     revenue_growth_yoy |-> 0, profit_margin |-> 0, debt_to_equity |-> 0,
     current_ratio |-> 0, roe |-> 0, free_cash_flow |-> 0,
     enterprise_value |-> 0, book_value |-> 0]
\* _get_default_fundamental_data
get_default_fundamental_data ==
    [kind |-> "FundamentalData", market_cap |-> 0, pe_ratio |-> NONE, ps_ratio |-> NONE,
     revenue_growth_yoy |-> NONE, profit_margin |-> NONE, debt_to_equity |-> NONE,
     current_ratio |-> NONE, roe |-> NONE, free_cash_flow |-> NONE,
     enterprise_value |-> NONE, book_value |-> NONE]

get_default_analyst_coverage ==
    [kind |-> "AnalystCoverage", consensus_rating |-> "hold", num_analysts |-> 0,
     price_target_upside |-> 0, recent_upgrades |-> 0, recent_downgrades |-> 0]

\* a default that reports a short interest of 25
DefaultStructureWithShortInterest ==
    [kind |-> "StockStructure", shares_outstanding |-> 0, float_shares |-> 0,
     short_interest |-> 25, cost_to_borrow |-> NONE, utilization_rate |-> NONE,
     short_squeeze_score |-> 0]
\* _get_default_stock_structure
get_default_stock_structure ==
    [kind |-> "StockStructure", shares_outstanding |-> 0, float_shares |-> 0,
     short_interest |-> 0, cost_to_borrow |-> NONE, utilization_rate |-> NONE,
     short_squeeze_score |-> 0]

(***************************************************************************)
(* CompositeScorer                                                         *)
(***************************************************************************)
\* Settings: social, technical, fundamental, analyst, structure weights
DefaultWeights ==
    [social |-> 25, technical |-> 25, fundamental |-> 20, analyst |-> 15, structure |-> 15]

BuyRatings == {"buy", "strong_buy"}
SellRatings == {"sell", "strong_sell"}

\* _determine_risk_level: the comparisons on rsi raise TypeError when rsi is None
risk_raises(analysis) == analysis.technical_analysis.rsi = NONE

RiskFactors(analysis, total_score) ==
    (IF analysis.technical_analysis.rsi > 80 \/ analysis.technical_analysis.rsi < 20
     THEN 1 ELSE 0)
    + (IF Truthy(analysis.fundamental_data.pe_ratio)
          /\ analysis.fundamental_data.pe_ratio > 50 THEN 1 ELSE 0)
    + (IF analysis.social_sentiment.sentiment_score > 80 THEN 1 ELSE 0)
    + (IF analysis.stock_structure.short_interest > 30 THEN 1 ELSE 0)
    + (IF FloatLess(total_score, FloatOfInt(30)) THEN 1 ELSE 0)

\* a variant that needs more than three indicators for "high"
RiskOfCountStrict(risk_factors) ==
    IF risk_factors > 3 THEN "high"
    ELSE IF risk_factors >= 1 THEN "medium"
    ELSE "low"
\* if risk_factors >= 3 ... elif risk_factors >= 1 ... else
RiskOfCount(risk_factors) ==
    IF risk_factors >= 3 THEN "high"
    ELSE IF risk_factors >= 1 THEN "medium"
    ELSE "low"

determine_risk_level(analysis, total_score) ==
    RiskOfCount(RiskFactors(analysis, total_score))

\* _determine_opportunity_type: the rules in source order
ShortSqueezeRule(analysis) ==
    /\ analysis.stock_structure.short_interest > 20
    /\ analysis.social_sentiment.sentiment_score > 30
    /\ analysis.social_sentiment.mentions > 100

MomentumRule(analysis) ==
    /\ analysis.social_sentiment.sentiment_score > 50
    /\ analysis.technical_analysis.trend_direction = "bullish"
    /\ analysis.technical_analysis.volume_spike

ValueRule(analysis) ==
    /\ Truthy(analysis.fundamental_data.pe_ratio)
    /\ analysis.fundamental_data.pe_ratio < 20
    /\ analysis.analyst_coverage.consensus_rating \in BuyRatings

\* the growth rule reads price_target_upside only after the growth tests pass
GrowthRuleReadsUpside(analysis) ==
    /\ Truthy(analysis.fundamental_data.revenue_growth_yoy)
    /\ analysis.fundamental_data.revenue_growth_yoy > 20

GrowthRule(analysis) ==
    /\ GrowthRuleReadsUpside(analysis)
    /\ analysis.analyst_coverage.price_target_upside > 15

ContrarianRule(analysis) ==
    /\ analysis.social_sentiment.sentiment_score < -30
    /\ analysis.analyst_coverage.consensus_rating \in BuyRatings

opportunity_raises(analysis) ==
    /\ ~ShortSqueezeRule(analysis)
    /\ ~MomentumRule(analysis)
    /\ ~ValueRule(analysis)
    /\ GrowthRuleReadsUpside(analysis)
    /\ analysis.analyst_coverage.price_target_upside = NONE

\* a variant that tries the momentum rule before the short-squeeze rule
OpportunityMomentumFirst(analysis) ==
    IF MomentumRule(analysis) THEN "momentum"
    ELSE IF ShortSqueezeRule(analysis) THEN "short_squeeze"
    ELSE IF ValueRule(analysis) THEN "value"
    ELSE IF GrowthRule(analysis) THEN "growth"
    ELSE IF ContrarianRule(analysis) THEN "contrarian"
    ELSE "general"
\* the chain of if ... return in source order
determine_opportunity_type(analysis) ==
    IF ShortSqueezeRule(analysis) THEN "short_squeeze"
    ELSE IF MomentumRule(analysis) THEN "momentum"
    ELSE IF ValueRule(analysis) THEN "value"
    ELSE IF GrowthRule(analysis) THEN "growth"
    ELSE IF ContrarianRule(analysis) THEN "contrarian"
    ELSE "general"

\* _calculate_confidence: min(sum(confidence_factors), 1.0), the factors
\* added in the order they were appended
calculate_confidence(analysis) ==
    LET fifth == FloatOfRatio(2, 10)
        mentions == IF analysis.social_sentiment.mentions > 50 THEN fifth ELSE FloatZero
        analysts == IF analysis.analyst_coverage.num_analysts > 5 THEN fifth ELSE FloatZero
        pattern ==
            IF analysis.technical_analysis.pattern_detected \notin {NoneStr, ""}
            THEN FloatMul(FloatOfRatio(analysis.technical_analysis.pattern_confidence, 100),
                          fifth)
            ELSE FloatZero
        market_cap == IF analysis.fundamental_data.market_cap > 1000 THEN fifth ELSE FloatZero
        shares ==
            IF analysis.stock_structure.shares_outstanding > 0 THEN fifth ELSE FloatZero
    IN  FloatMin(FloatAdd(FloatAdd(FloatAdd(FloatAdd(FloatAdd(FloatZero, mentions), analysts),
                                            pattern), market_cap), shares),
                 One)

\* the setting 0.25 for the weight 25
WeightUnit == 100
WeightOf(percent) == FloatOfRatio(percent, WeightUnit)

\* a variant that adds the component scores without their weights
WeightedTotalUnweighted(scores, w) ==
    FloatAdd(FloatAdd(FloatAdd(FloatAdd(scores.social, scores.technical),
                               scores.fundamental), scores.analyst), scores.structure)
\* a variant that leaves the structure term out of the sum
WeightedTotalWithoutStructure(scores, w) ==
    FloatAdd(FloatAdd(FloatAdd(FloatMul(scores.social, WeightOf(w.social)),
                               FloatMul(scores.technical, WeightOf(w.technical))),
                      FloatMul(scores.fundamental, WeightOf(w.fundamental))),
             FloatMul(scores.analyst, WeightOf(w.analyst)))
\* total_score = social_score * weights['social'] + ... , added left to right
WeightedTotal(scores, w) ==
    FloatAdd(FloatAdd(FloatAdd(FloatAdd(FloatMul(scores.social, WeightOf(w.social)),
                                        FloatMul(scores.technical, WeightOf(w.technical))),
                               FloatMul(scores.fundamental, WeightOf(w.fundamental))),
                      FloatMul(scores.analyst, WeightOf(w.analyst))),
             FloatMul(scores.structure, WeightOf(w.structure)))

ComponentScores(analysis) ==
    [social |-> score_sentiment(analysis.social_sentiment),
     technical |-> score_technical(analysis.technical_analysis),
     fundamental |-> score_fundamental(analysis.fundamental_data),
     analyst |-> score_analyst_coverage(analysis.analyst_coverage),
     structure |-> score_stock_structure(analysis.stock_structure)]

\* a variant of the fallback that classifies instead of saying "unknown"
FallbackScoreKeepsRisk ==
    [kind |-> "CompositeScore", total_score |-> FloatZero, social_score |-> FloatZero,
     technical_score |-> FloatZero, fundamental_score |-> FloatZero,
     analyst_score |-> FloatZero, structure_score |-> FloatZero,
     risk_level |-> "low", opportunity_type |-> "general", confidence_level |-> FloatZero]
\* the except branch of calculate_composite_score
FallbackCompositeScore ==
    [kind |-> "CompositeScore", total_score |-> FloatZero, social_score |-> FloatZero,
     technical_score |-> FloatZero, fundamental_score |-> FloatZero,
     analyst_score |-> FloatZero, structure_score |-> FloatZero,
     risk_level |-> "unknown", opportunity_type |-> "unknown",
     confidence_level |-> FloatZero]

\* the classification and the CompositeScore built in the try branch, or the
\* fallback when the classification raises
ClassifiedScore(analysis, scores, total_score) ==
    IF risk_raises(analysis) \/ opportunity_raises(analysis)
    THEN FallbackCompositeScore
    ELSE [kind |-> "CompositeScore", total_score |-> total_score,
          social_score |-> scores.social,
          technical_score |-> scores.technical,
          fundamental_score |-> scores.fundamental,
          analyst_score |-> scores.analyst,
          structure_score |-> scores.structure,
          risk_level |-> determine_risk_level(analysis, total_score),
          opportunity_type |-> determine_opportunity_type(analysis),
          confidence_level |-> calculate_confidence(analysis)]

\* the weighted total of the individual scores, then the classification
TotalledScore(analysis, w, scores) ==
    ClassifiedScore(analysis, scores, WeightedTotal(scores, w))

calculate_composite_score(analysis, w) ==
    TotalledScore(analysis, w, ComponentScores(analysis))

(***************************************************************************)
(* Divergence detectors.  A detector either returns its list of signals or *)
(* raises; detect_all_divergences runs the five inside one try block.      *)
(***************************************************************************)
Returned(sigs) == [raises |-> FALSE, signals |-> sigs]
Raised == [raises |-> TRUE, signals |-> << >>]

DivergenceSignal(type, strength, confidence, catalyst, timeframe, risk, move) ==
    [symbol |-> "", divergence_type |-> type, strength |-> strength,
     confidence |-> confidence, catalyst |-> catalyst, timeframe |-> timeframe,
     risk_level |-> risk, expected_move |-> move]

\* int(analyst.consensus_rating.value): int() of a str raises ValueError
\* unless the string is a decimal literal; the enum values are words.
DecimalLiterals == {"0", "1", "2", "3", "4", "5"}
int_raises(value) == value \notin DecimalLiterals
IntOf(value) ==
    CASE value = "0" -> 0 [] value = "1" -> 1 [] value = "2" -> 2
      [] value = "3" -> 3 [] value = "4" -> 4 [] value = "5" -> 5

detect_sentiment_divergence(social, analyst) ==
    LET sentiment == FloatOfRatio(social.sentiment_score, 100)
    IN  IF social.sentiment_score > 40 /\ analyst.consensus_rating \in SellRatings
        THEN IF int_raises(analyst.consensus_rating) THEN Raised
             ELSE Returned(<< DivergenceSignal(
                      "retail_bullish_institutional_bearish",
                      FloatMin(FloatAdd(sentiment,
                                        FloatOfRatio(5 - IntOf(analyst.consensus_rating), 5)),
                               One),
                      IF analyst.num_analysts > 5 THEN FloatOfRatio(7, 10)
                      ELSE FloatOfRatio(5, 10),
                      "Retail FOMO vs institutional concerns", "short", "high",
                      FloatOfInt(-10)) >>)
        ELSE IF social.sentiment_score < -30 /\ analyst.consensus_rating \in BuyRatings
        THEN IF int_raises(analyst.consensus_rating)
                \/ analyst.price_target_upside = NONE THEN Raised
             ELSE Returned(<< DivergenceSignal(
                      "retail_bearish_institutional_bullish",
                      FloatMin(FloatAdd(FloatAbs(sentiment),
                                        FloatOfRatio(IntOf(analyst.consensus_rating), 5)),
                               One),
                      IF analyst.num_analysts > 8 THEN FloatOfRatio(8, 10)
                      ELSE FloatOfRatio(6, 10),
                      "Institutional accumulation opportunity", "medium", "medium",
                      FloatMul(FloatOfInt(analyst.price_target_upside),
                               FloatOfRatio(7, 10))) >>)
        ELSE Returned(<< >>)

min_short_interest == 15
min_utilization == 80
min_mentions == 100

\* the volume component of _calculate_squeeze_strength
MentionsTier(mentions) ==
    IF mentions > 500 THEN FloatOfRatio(2, 10)
    ELSE IF mentions > 200 THEN FloatOfRatio(15, 100)
    ELSE IF mentions > 100 THEN FloatOfRatio(1, 10)
    ELSE FloatZero

\* a variant without the cap on the short-interest term and on the sum
SqueezeStrengthUncapped(social, structure, technical) ==
    FloatAdd(FloatAdd(FloatAdd(FloatAdd(FloatZero,
        FloatOfRatio(structure.short_interest, 50)),
        FloatMul(FloatOfRatio(Max(0, social.sentiment_score), 100), FloatOfRatio(3, 10))),
        MentionsTier(social.mentions)),
        IF technical.volume_spike THEN FloatOfRatio(1, 10) ELSE FloatZero)

\* _calculate_squeeze_strength
calculate_squeeze_strength(social, structure, technical) ==
    FloatMin(FloatAdd(FloatAdd(FloatAdd(FloatAdd(FloatZero,
        FloatMin(FloatOfRatio(structure.short_interest, 50), FloatOfRatio(4, 10))),
        FloatMul(FloatOfRatio(Max(0, social.sentiment_score), 100), FloatOfRatio(3, 10))),
        MentionsTier(social.mentions)),
        IF technical.volume_spike THEN FloatOfRatio(1, 10) ELSE FloatZero),
        One)

detect_squeeze_setup(social, structure, technical) ==
    LET high_short_interest == structure.short_interest > min_short_interest
        high_utilization ==
            (IF structure.utilization_rate = NONE THEN 0
             ELSE structure.utilization_rate) > min_utilization
        retail_interest == social.mentions > min_mentions
        positive_sentiment == social.sentiment_score > 20
    IN  IF high_short_interest /\ retail_interest /\ positive_sentiment
        THEN \* float_shares / shares_outstanding: ZeroDivisionError
             IF structure.shares_outstanding = 0 THEN Raised
             ELSE Returned(<< DivergenceSignal(
                      "short_squeeze_setup",
                      calculate_squeeze_strength(social, structure, technical),
                      \* 0.6 + (0.3 if high_utilization else 0) + (0.1 if volume_spike else 0)
                      FloatAdd(FloatAdd(FloatOfRatio(6, 10),
                                        IF high_utilization THEN FloatOfRatio(3, 10)
                                        ELSE FloatZero),
                               IF technical.volume_spike THEN FloatOfRatio(1, 10)
                               ELSE FloatZero),
                      "Retail buying pressure vs short covering",
                      IF social.volume_trend = "bullish" THEN "short" ELSE "medium",
                      IF structure.short_interest > 30 THEN "high" ELSE "medium",
                      FloatMin(FloatOfInt(structure.short_interest * 2), Hundred)) >>)
        ELSE Returned(<< >>)

detect_momentum_divergence(social, technical, analyst) ==
    IF /\ social.sentiment_score > 60
       /\ social.volume_trend = "bullish"
       /\ technical.trend_direction # "bullish"
    THEN Returned(<< DivergenceSignal("momentum_divergence", FloatOfRatio(7, 10),
                         FloatOfRatio(6, 10), "Social media hype", "short", "high",
                         NoneFloat) >>)
    ELSE Returned(<< >>)

detect_value_trap(fundamental, analyst, technical) ==
    LET appears_cheap ==
            \/ Truthy(fundamental.pe_ratio) /\ fundamental.pe_ratio < 15
            \/ Truthy(fundamental.ps_ratio) /\ fundamental.ps_ratio < 2
        declining_business ==
            \/ Truthy(fundamental.revenue_growth_yoy)
                  /\ fundamental.revenue_growth_yoy < -10
            \/ Truthy(fundamental.profit_margin) /\ fundamental.profit_margin < 0
        analyst_concerns == analyst.recent_downgrades > analyst.recent_upgrades
    IN  IF appears_cheap /\ (declining_business \/ analyst_concerns)
        THEN Returned(<< DivergenceSignal("value_trap", FloatOfRatio(6, 10),
                             FloatOfRatio(7, 10), "Business deterioration", "long",
                             "medium", FloatOfInt(-15)) >>)
        ELSE Returned(<< >>)

detect_hidden_gem(social, fundamental, analyst) ==
    LET good_fundamentals ==
            /\ Truthy(fundamental.revenue_growth_yoy)
            /\ fundamental.revenue_growth_yoy > 15
            /\ Truthy(fundamental.profit_margin) /\ fundamental.profit_margin > 10
            /\ Truthy(fundamental.roe) /\ fundamental.roe > 15
        strong_analyst_support ==
            /\ analyst.consensus_rating \in BuyRatings
            /\ analyst.price_target_upside > 20
        low_retail_attention ==
            /\ social.mentions < 50
            /\ social.sentiment_score < 30 /\ social.sentiment_score > -30
    IN  \* "rating in [...] and upside > 20" compares None when upside is None
        IF analyst.consensus_rating \in BuyRatings /\ analyst.price_target_upside = NONE
        THEN Raised
        ELSE IF good_fundamentals /\ strong_analyst_support /\ low_retail_attention
        THEN Returned(<< DivergenceSignal("hidden_gem", FloatOfRatio(8, 10),
                             FloatOfRatio(8, 10), "Institutional accumulation", "long",
                             "low",
                             FloatMul(FloatOfInt(analyst.price_target_upside),
                                      FloatOfRatio(8, 10))) >>)
        ELSE Returned(<< >>)

\* The detectors in the order detect_all_divergences calls them.
Detectors == << "sentiment", "squeeze", "momentum", "value_trap", "hidden_gem" >>

RunDetector(name, analysis) ==
    CASE name = "sentiment" ->
            detect_sentiment_divergence(analysis.social_sentiment, analysis.analyst_coverage)
      [] name = "squeeze" ->
            detect_squeeze_setup(analysis.social_sentiment, analysis.stock_structure,
                                 analysis.technical_analysis)
      [] name = "momentum" ->
            detect_momentum_divergence(analysis.social_sentiment,
                                       analysis.technical_analysis, analysis.analyst_coverage)
      [] name = "value_trap" ->
            detect_value_trap(analysis.fundamental_data, analysis.analyst_coverage,
                              analysis.technical_analysis)
      [] name = "hidden_gem" ->
            detect_hidden_gem(analysis.social_sentiment, analysis.fundamental_data,
                              analysis.analyst_coverage)

\* all_signals.extend(...) detector by detector until one raises
RECURSIVE ExtendUntilRaise(_, _, _)
\* detector i has returned or raised
Extend(analysis, i, all_signals, r) ==
    IF r.raises THEN [raises |-> TRUE, signals |-> all_signals]
    ELSE ExtendUntilRaise(analysis, i + 1, all_signals \o r.signals)

ExtendUntilRaise(analysis, i, all_signals) ==
    IF i > Len(Detectors) THEN Returned(all_signals)
    ELSE Extend(analysis, i, all_signals, RunDetector(Detectors[i], analysis))

\* a variant whose loop runs over the signals of the last detector only
SetSymbolOfLastDetector(sigs, sym) ==
    [i \in 1..Len(sigs) |->
        IF sigs[i].divergence_type = "hidden_gem" THEN [sigs[i] EXCEPT !.symbol = sym]
        ELSE sigs[i]]

SetSymbol(sigs, sym) == [i \in 1..Len(sigs) |-> [sigs[i] EXCEPT !.symbol = sym]]

\* the loop that stamps the symbol is the last statement of the try block
StampUnlessRaised(r, sym) == IF r.raises THEN r.signals ELSE SetSymbol(r.signals, sym)

detect_all_divergences(analysis) ==
    StampUnlessRaised(ExtendUntilRaise(analysis, 1, << >>), analysis.symbol)


(***************************************************************************)
(* DivergenceDetector.rank_signals_by_importance.  The sort key is the     *)
(* float ((strength + confidence) / 2) * multiplier * risk_adj, computed   *)
(* in that order from the floats the signal carries; the two lookups are   *)
(* the floats of their literals.                                           *)
(***************************************************************************)
\* type_multipliers.get(signal.divergence_type, 1.0), in tenths
type_multiplier(divergence_type) ==
    CASE divergence_type = "short_squeeze_setup" -> 15
      [] divergence_type = "hidden_gem" -> 13
      [] divergence_type = "retail_bearish_institutional_bullish" -> 12
      [] divergence_type = "momentum_divergence" -> 10
      [] divergence_type = "retail_bullish_institutional_bearish" -> 8
      [] divergence_type = "value_trap" -> 7
      [] divergence_type = "hype_bubble" -> 6
      [] OTHER -> 10

\* risk_adjustments.get(signal.risk_level, 1.0), in tenths
risk_adjustment(risk_level) ==
    CASE risk_level = "low" -> 12
      [] risk_level = "medium" -> 10
      [] risk_level = "high" -> 8
      [] OTHER -> 10

signal_importance(signal) ==
    LET base_score == FloatDivInt(FloatAdd(signal.strength, signal.confidence), 2)
        multiplier == FloatOfRatio(type_multiplier(signal.divergence_type), 10)
        risk_adj == FloatOfRatio(risk_adjustment(signal.risk_level), 10)
    IN  FloatMul(FloatMul(base_score, multiplier), risk_adj)

\* a variant that is not stable: an element moves in front of earlier
\* elements with the same key
KeptAheadStrict(ranked, signal) ==
    Cardinality({ k \in 1..Len(ranked) :
                    FloatGreater(signal_importance(ranked[k]),
                                 signal_importance(signal)) })

\* sorted(..., reverse=True) is stable: an element stays in front of every
\* later element whose key is not greater
KeptAhead(ranked, signal) ==
    Cardinality({ k \in 1..Len(ranked) :
                    FloatGeq(signal_importance(ranked[k]),
                             signal_importance(signal)) })

InsertRanked(ranked, signal) ==
    LET n == KeptAhead(ranked, signal)
    IN  SubSeq(ranked, 1, n) \o << signal >> \o SubSeq(ranked, n + 1, Len(ranked))

RECURSIVE RankFrom(_, _, _)
RankFrom(signals, i, ranked) ==
    IF i > Len(signals) THEN ranked
    ELSE RankFrom(signals, i + 1, InsertRanked(ranked, signals[i]))

rank_signals_by_importance(signals) == RankFrom(signals, 1, << >>)

(***************************************************************************)
(* Alert synthesis (StockAnalyzer._convert_signals_to_alerts)              *)
(***************************************************************************)
\* "<literal>" in signal.catalyst.lower(), for the catalyst texts the
\* detectors emit
CatalystContains(catalyst, literal) ==
    \/ catalyst = "Retail buying pressure vs short covering" /\ literal = "short"
    \/ catalyst = "Social media hype" /\ literal = "social"

CatalystIf(catalyst, literal) ==
    IF CatalystContains(catalyst, literal) THEN catalyst ELSE NoneStr

\* str.upper() on the symbols the model draws from
Upper(sym) ==
    CASE sym = "gme" -> "GME"
      [] sym = "amc" -> "AMC"
      [] OTHER -> sym

chart_base_url == "https://chart-img.com/chart"
FallbackChartUrl(symbol) == chart_base_url \o "/" \o Upper(symbol)

\* ChartImageCollector.get_alert_chart / get_chart_image: the URL carries the
\* url-encoded query string of the chart configured for the alert type, the
\* default chart for a type without configuration; no API key configured
AlertChartUrl(symbol, alert_type) ==
    chart_base_url \o "/" \o Upper(symbol) \o "?symbol=" \o Upper(symbol)
        \o "&timeframe=" \o (IF alert_type = "value" THEN "weekly" ELSE "daily")
        \o "&width=1000&height=600&indicators="
        \o (CASE alert_type = "short_squeeze" ->
                    "volume%2Cshort_interest%2Cbollinger_bands%2Crsi"
               [] alert_type = "momentum" -> "sma20%2Csma50%2Cvolume%2Crsi%2Cmacd"
               [] alert_type = "breakout" ->
                    "support_resistance%2Cvolume%2Cbollinger_bands"
               [] alert_type = "value" -> "price%2Cvolume%2Csma200"
               [] alert_type = "divergence" -> "rsi%2Cmacd%2Cvolume%2Cprice"
               [] OTHER -> "sma20%2Csma50%2Cvolume%2Crsi")

\* a variant in which asyncio.run() runs the coroutine to its result
asyncio_run_returns == FALSE
\* asyncio.run() raises RuntimeError when called while an event loop is
\* running; _convert_signals_to_alerts is called from the coroutine
\* analyze_stock, so the loop is running.
asyncio_run_raises == TRUE

\* a variant whose thresholds are inclusive
AlertPriorityInclusive(strength, total_score) ==
    IF FloatGeq(strength, FloatOfRatio(8, 10)) /\ FloatGeq(total_score, FloatOfInt(70))
    THEN "high"
    ELSE IF FloatGeq(strength, FloatOfRatio(6, 10)) /\ FloatGeq(total_score, FloatOfInt(50))
    THEN "medium"
    ELSE "low"
\* the priority of an alert, decided per signal
AlertPriority(strength, total_score) ==
    IF FloatGreater(strength, FloatOfRatio(8, 10))
          /\ FloatGreater(total_score, FloatOfInt(70))
    THEN "high"
    ELSE IF FloatGreater(strength, FloatOfRatio(6, 10))
               /\ FloatGreater(total_score, FloatOfInt(50))
    THEN "medium"
    ELSE "low"

StockAlert(symbol, signal, total_score) ==
    [symbol |-> symbol,
     alert_type |-> signal.divergence_type,
     score |-> total_score,
     priority |-> AlertPriority(signal.strength, total_score),
     social_catalyst |-> CatalystIf(signal.catalyst, "social"),
     technical_catalyst |-> CatalystIf(signal.catalyst, "technical"),
     fundamental_catalyst |-> CatalystIf(signal.catalyst, "fundamental"),
     analyst_catalyst |-> CatalystIf(signal.catalyst, "analyst"),
     structure_catalyst |-> CatalystIf(signal.catalyst, "short"),
     chart_image_url |-> IF asyncio_run_raises THEN FallbackChartUrl(symbol)
                         ELSE AlertChartUrl(symbol, signal.divergence_type)]

convert_signals_to_alerts(symbol, sigs, total_score) ==
    [i \in 1..Len(sigs) |-> StockAlert(symbol, sigs[i], total_score)]

(***************************************************************************)
(* Snapshots the provider tasks return in the model                        *)
(***************************************************************************)
Social(mentions, sentiment, trend, keywords, influencers) ==
    [kind |-> "SocialSentiment", platform |-> "aggregated", mentions |-> mentions,
     sentiment_score |-> sentiment, volume_trend |-> trend, top_keywords |-> keywords,
     influencer_mentions |-> influencers]

Technical(price, rsi, macd, bb, ma, pattern, conf, trend, spike) ==
    [kind |-> "TechnicalAnalysis", price |-> price, volume |-> 0, rsi |-> rsi,
     macd_signal |-> macd, bollinger_position |-> bb, moving_averages |-> ma,
     pattern_detected |-> pattern, pattern_confidence |-> conf,
     trend_direction |-> trend, volume_spike |-> spike]

Fundamental(cap, pe, ps, growth, margin, debt, current, roe) ==
    [kind |-> "FundamentalData", market_cap |-> cap, pe_ratio |-> pe, ps_ratio |-> ps,
     revenue_growth_yoy |-> growth, profit_margin |-> margin, debt_to_equity |-> debt,
     current_ratio |-> current, roe |-> roe, free_cash_flow |-> NONE,
     enterprise_value |-> NONE, book_value |-> NONE]

Analyst(rating, n, upside, upgrades, downgrades) ==
    [kind |-> "AnalystCoverage", consensus_rating |-> rating, num_analysts |-> n,
     price_target_upside |-> upside, recent_upgrades |-> upgrades,
     recent_downgrades |-> downgrades]

Structure(shares, float, si, ctb, util, squeeze) ==
    [kind |-> "StockStructure", shares_outstanding |-> shares, float_shares |-> float,
     short_interest |-> si, cost_to_borrow |-> ctb, utilization_rate |-> util,
     short_squeeze_score |-> squeeze]

SocialReturns ==
    { Social(500, 90, "bullish", << "moon", "SQUEEZE" >>, 25),
      Social(500, 40, "neutral", << >>, 0),
      Social(40, -50, "bearish", << "Dump" >>, 0),
      Social(20, 10, "neutral", << "stock" >>, 3),
      Social(150, 50, "bullish", << "moon" >>, NONE) }

TechnicalReturns ==
    { Technical(100, 85, "bullish", 90, [sma_20 |-> 90, sma_50 |-> 80],
                "breakout", 80, "bullish", TRUE),
      Technical(0, 50, "neutral", 50, EmptyDict, NoneStr, 0, "neutral", TRUE),
      Technical(50, 15, "bearish", 10, [sma_20 |-> 60], NoneStr, 0, "bearish", FALSE),
      Technical(100, 50, "bullish", NONE, [sma_20 |-> 90], NoneStr, 0, "neutral", FALSE),
      Technical(100, NONE, "neutral", 50, EmptyDict, NoneStr, 0, "neutral", FALSE) }

FundamentalReturns ==
    { Fundamental(5000, 60, 12, 30, 12, 5, 20, 18),
      Fundamental(800, 10, 1, -20, -5, 25, 8, -3),
      Fundamental(2000, 0, NONE, -20, 0, NONE, NONE, NONE),
      Fundamental(3000, 10, 3, 30, 12, 5, 20, 18) }

AnalystReturns ==
    { Analyst("strong_buy", 12, 30, 3, 0),
      Analyst("sell", 8, -15, 0, 3),
      Analyst("buy", 6, NONE, 1, 0),
      Analyst("buy", 6, 30, 0, 1) }

StructureReturns ==
    { Structure(0, 0, 25, NONE, NONE, 70),
      Structure(100, 20, 35, 30, 95, 90),
      Structure(1000, 900, 3, NONE, NONE, 10) }

\* Settings is a pydantic BaseSettings: the five weights default to
\* 0.25/0.25/0.20/0.15/0.15 and can be overridden from the environment or
\* .env; nothing validates that they sum to 1.0.
WeightConfigs ==
    { DefaultWeights,
      [social |-> 50, technical |-> 50, fundamental |-> 20, analyst |-> 15,
       structure |-> 15] }

Symbols == {"gme"}

(***************************************************************************)
(* State of one analyze_stock call, and of one application of a pure       *)
(* scoring function.                                                       *)
(***************************************************************************)
VARIABLES
    pc,              \* position in analyze_stock
    symbol,          \* its argument
    weights,         \* CompositeScorer.weights, read from settings
    tasks,           \* result of each of the five gathered tasks
    analystStep,     \* position in _collect_analyst_data
    raisedBy,        \* collectors that raised during this analysis
    returned,        \* what each domain's collector returned
    analysis,        \* the StockAnalysis object
    composite_score, \* local composite_score of analyze_stock
    signals,         \* local divergence_signals
    result,          \* what analyze_stock returned
    fn,              \* pure function under evaluation
    arg,             \* its argument
    out,             \* its result
    symbols,         \* argument of analyze_multiple_stocks
    semaphore_value, \* semaphore._value
    waiters,         \* semaphore._waiters, tasks in arrival order
    task_pc,         \* position of each analyze_with_semaphore task
    analyses,        \* what each task returned to asyncio.gather
    results,         \* what analyze_multiple_stocks returned
    clock,           \* the wall clock datetime.now() reads
    runs,            \* what each run over the same snapshots produced
    time,                \* seconds since the RateLimiter was constructed
    requests_per_minute, \* RateLimiter.requests_per_minute
    burst_limit,         \* RateLimiter.burst_limit
    requests,            \* RateLimiter.requests
    burst_count,         \* RateLimiter.burst_count
    last_reset,          \* RateLimiter.last_reset
    caller_pc,           \* position of each caller in wait()
    caller_now,          \* local now of each caller
    wake_at,             \* when each caller's asyncio.sleep is due
    completed_at         \* when each caller's wait() returned

batchVars == << symbols, semaphore_value, waiters, task_pc, analyses, results >>
repeatVars == << clock, runs >>
limiterVars == << time, requests_per_minute, burst_limit, requests, burst_count,
                 last_reset, caller_pc, caller_now, wake_at, completed_at >>
vars == << pc, symbol, weights, tasks, analystStep, raisedBy, returned, analysis,
           composite_score, signals, result, fn, arg, out, batchVars, repeatVars, limiterVars >>
pipelineVars == << pc, symbol, weights, tasks, analystStep, raisedBy, returned,
                   analysis, composite_score, signals, result >>
pureVars == << fn, arg, out >>

Domains == {"social", "technical", "fundamental", "analyst", "structure"}
Pending == [kind |-> "pending"]
ExceptionResult == [kind |-> "Exception"]
NoneValue == [kind |-> "None"]
NotApplied == [done |-> FALSE, value |-> 0]
Applied(v) == [done |-> TRUE, value |-> v]

\* isinstance(x, Exception)
IsException(x) == x.kind = "Exception"

PipelineStart ==
    /\ symbol \in Symbols
    /\ weights \in WeightConfigs
    /\ tasks = [d \in Domains |-> Pending]
    /\ analystStep = "technical"
    /\ raisedBy = {}
    /\ returned = [d \in Domains |-> Pending]
    /\ analysis = NoneValue
    /\ composite_score = NoneValue
    /\ signals = << >>
    /\ result = Pending

\* no batch is running
BatchIdle ==
    /\ symbols = << >>
    /\ semaphore_value = 0
    /\ waiters = << >>
    /\ task_pc = << >>
    /\ analyses = << >>
    /\ results = Pending

\* no RateLimiter is in use
LimiterIdle ==
    /\ time = 0
    /\ requests_per_minute = 0
    /\ burst_limit = 0
    /\ requests = << >>
    /\ burst_count = 0
    /\ last_reset = 0
    /\ caller_pc = << >>
    /\ caller_now = << >>
    /\ wake_at = << >>
    /\ completed_at = << >>

\* no repeated run is under way
RepeatIdle ==
    /\ clock = 0
    /\ runs = << >>

Init ==
    /\ pc = "start"
    /\ PipelineStart
    /\ fn = "none" /\ arg = NoneValue /\ out = NotApplied
    /\ BatchIdle
    /\ RepeatIdle
    /\ LimiterIdle

\* tasks = [...]: the five coroutines are created and handed to asyncio.gather
CreateTasks ==
    /\ pc = "start"
    /\ pc' = "gather"
    /\ UNCHANGED << symbol, weights, tasks, analystStep, raisedBy, returned, analysis,
                    composite_score, signals, result, fn, arg, out, batchVars, repeatVars, limiterVars >>

\* A task that awaits one collector: the collector returns a snapshot or raises.
ProviderCall(d, snapshots) ==
    /\ pc = "gather"
    /\ tasks[d] = Pending
    /\ \E outcome \in snapshots \cup {ExceptionResult} :
          /\ tasks' = [tasks EXCEPT ![d] = outcome]
          /\ returned' = [returned EXCEPT ![d] = outcome]
          /\ raisedBy' = IF IsException(outcome) THEN raisedBy \cup {d} ELSE raisedBy
    /\ UNCHANGED << pc, symbol, weights, analysis, composite_score, signals, result,
                    fn, arg, out, batchVars, repeatVars, limiterVars >>

collect_social_data == ProviderCall("social", SocialReturns) /\ UNCHANGED analystStep
collect_technical_data == ProviderCall("technical", TechnicalReturns) /\ UNCHANGED analystStep
collect_fundamental_data == ProviderCall("fundamental", FundamentalReturns) /\ UNCHANGED analystStep
collect_structure_data == ProviderCall("structure", StructureReturns) /\ UNCHANGED analystStep

\* _collect_analyst_data, first await: the technical collector is asked for
\* the current price; if it raises, the analyst task fails.
collect_analyst_data_price ==
    /\ pc = "gather"
    /\ tasks["analyst"] = Pending
    /\ analystStep = "technical"
    /\ \E technical_raises \in BOOLEAN :
          IF technical_raises
          THEN /\ tasks' = [tasks EXCEPT !["analyst"] = ExceptionResult]
               /\ raisedBy' = raisedBy \cup {"technical"}
               /\ analystStep' = "finished"
          ELSE /\ analystStep' = "analyst"
               /\ UNCHANGED << tasks, raisedBy >>
    /\ UNCHANGED << pc, symbol, weights, returned, analysis, composite_score, signals,
                    result, fn, arg, out, batchVars, repeatVars, limiterVars >>

\* _collect_analyst_data, second await: the analyst collector
collect_analyst_data_coverage ==
    /\ analystStep = "analyst"
    /\ ProviderCall("analyst", AnalystReturns)
    /\ analystStep' = "finished"

SubstituteDefault(outcome, default) == IF IsException(outcome) THEN default ELSE outcome

\* asyncio.gather(..., return_exceptions=True) completes when all five tasks
\* have; exceptions are replaced by defaults and the StockAnalysis is built.
gather_and_build ==
    /\ pc = "gather"
    /\ \A d \in Domains : tasks[d] # Pending
    /\ analysis' =
          [kind |-> "StockAnalysis",
           symbol |-> symbol,
           social_sentiment |->
               SubstituteDefault(tasks["social"], get_default_social_sentiment),
           technical_analysis |->
               SubstituteDefault(tasks["technical"], get_default_technical_analysis),
           fundamental_data |->
               SubstituteDefault(tasks["fundamental"], get_default_fundamental_data),
           analyst_coverage |->
               SubstituteDefault(tasks["analyst"], get_default_analyst_coverage),
           stock_structure |->
               SubstituteDefault(tasks["structure"], get_default_stock_structure),
           composite_score |-> NoneValue,
           alerts |-> << >>]
    /\ pc' = "score"
    /\ UNCHANGED << symbol, weights, tasks, analystStep, raisedBy, returned,
                    composite_score, signals, result, fn, arg, out, batchVars, repeatVars, limiterVars >>

\* a variant that leaves analysis.composite_score unset
ForgetCompositeScore(a, cs) == a
\* a variant that also lower-cases the keywords of the social snapshot in place
SetCompositeScoreLoweringKeywords(a, cs) ==
    [a EXCEPT !.composite_score = cs,
              !.social_sentiment.top_keywords = [k \in DOMAIN @ |-> Lower(@[k])]]
\* analysis.composite_score = composite_score
SetCompositeScore(a, cs) == [a EXCEPT !.composite_score = cs]

\* composite_score = self.scorer.calculate_composite_score(analysis)
\* analysis.composite_score = composite_score
score_analysis ==
    /\ pc = "score"
    /\ composite_score' = calculate_composite_score(analysis, weights)
    /\ analysis' = SetCompositeScore(analysis, composite_score')
    /\ pc' = "detect"
    /\ UNCHANGED << symbol, weights, tasks, analystStep, raisedBy, returned, signals,
                    result, fn, arg, out, batchVars, repeatVars, limiterVars >>

\* divergence_signals = self.divergence_detector.detect_all_divergences(analysis)
detect_divergences ==
    /\ pc = "detect"
    /\ signals' = detect_all_divergences(analysis)
    /\ pc' = "alerts"
    /\ UNCHANGED << symbol, weights, tasks, analystStep, raisedBy, returned, analysis,
                    composite_score, result, fn, arg, out, batchVars, repeatVars, limiterVars >>

\* alerts = self._convert_signals_to_alerts(...); analysis.alerts = alerts;
\* return analysis
synthesize_alerts ==
    /\ pc = "alerts"
    /\ analysis' = [analysis EXCEPT !.alerts =
                       convert_signals_to_alerts(symbol, signals,
                                                 composite_score.total_score)]
    /\ result' = analysis'
    /\ pc' = "done"
    /\ UNCHANGED << symbol, weights, tasks, analystStep, raisedBy, returned,
                    composite_score, signals, fn, arg, out, batchVars, repeatVars, limiterVars >>

Next ==
    \/ CreateTasks
    \/ collect_social_data
    \/ collect_technical_data
    \/ collect_fundamental_data
    \/ collect_structure_data
    \/ collect_analyst_data_price
    \/ collect_analyst_data_coverage
    \/ gather_and_build
    \/ score_analysis
    \/ detect_divergences
    \/ synthesize_alerts

Spec == Init /\ [][Next]_vars

(***************************************************************************)
(* Application of one scoring function to one argument.  The arguments are *)
(* drawn from sets that straddle every threshold the scorers compare       *)
(* against; NONE marks a field left as None.                               *)
(***************************************************************************)
MaxKeywords == 2
Trends == {"bullish", "bearish", "neutral"}
Ratings == {"strong_buy", "buy", "hold", "sell", "strong_sell"}
KeywordLists == UNION { [1..n -> KeywordDomain] : n \in 0..MaxKeywords }

SocialInputs ==
    { Social(m, s, t, k, i) :
        m \in {10, 11, 50, 51, 100, 101, 200, 201, 500, 501, 1000, 1001},
        s \in {-100, 0, 100}, t \in Trends, k \in KeywordLists,
        i \in {5, 6, 20, 21, NONE} }

MovingAverageInputs ==
    { EmptyDict, [sma_20 |-> 90], [sma_20 |-> 110], [sma_50 |-> 80],
      [sma_20 |-> 90, sma_50 |-> 80] }
PatternInputs ==
    { << NoneStr, 0 >>, << "", 50 >>, << "breakout", 0 >>, << "breakout", 100 >> }

TechnicalInputs ==
    { Technical(100, r, m, b, ma, p[1], p[2], t, v) :
        r \in {NONE, 10, 20, 29, 30, 70, 71, 80, 81}, m \in Trends,
        b \in {NONE, 19, 20, 80, 81}, ma \in MovingAverageInputs,
        p \in PatternInputs, t \in Trends, v \in BOOLEAN }

FundamentalInputs ==
    { Fundamental(5000, pe, ps, g, pm, de, cr, roe) :
        pe \in {NONE, -5, 10, 20, 30, 50, 60}, ps \in {NONE, 1, 3, 7, 15, 25},
        g \in {NONE, -20, 3, 20, 60}, pm \in {NONE, -5, 8, 25},
        de \in {NONE, 2, 25}, cr \in {NONE, 4, 30}, roe \in {NONE, -3, 25} }

AnalystInputs ==
    { Analyst(r, n, u, up, down) :
        r \in Ratings, n \in {0, 3, 6, 11, 16, 21},
        u \in {NONE, -15, -10, -5, 0, 3, 10, 20, 30, 60},
        up \in {0, 1, 2, 4}, down \in {0, 1, 2, 3} }

ShareInputs ==
    { << 0, 0 >>, << 100, 0 >>, << 100, 20 >>, << 100, 30 >>, << 100, 40 >>,
      << 100, 50 >>, << 100, 60 >>, << 100, 70 >>, << 100, 90 >> }

StructureInputs ==
    { Structure(sh[1], sh[2], si, c, u, 50) :
        sh \in ShareInputs, si \in {0, 6, 11, 16, 21, 31},
        c \in {NONE, 0, 6, 11, 26, 51}, u \in {NONE, 0, 61, 71, 81, 91} }

\* a StockAnalysis whose five snapshots are given
AnalysisOf(social, technical, fundamental, analyst, structure) ==
    [kind |-> "StockAnalysis", symbol |-> "gme", social_sentiment |-> social,
     technical_analysis |-> technical, fundamental_data |-> fundamental,
     analyst_coverage |-> analyst, stock_structure |-> structure,
     composite_score |-> NoneValue, alerts |-> << >>]

\* the floats next above and next below a float that is not a power of two
Above(f) == [f EXCEPT !.m = AddNat(@, OneNat)]
Below(f) == [f EXCEPT !.m = SubNat(@, OneNat)]

\* total scores on both sides of the risk threshold; 29.999999999999996 is
\* the total of component scores 19.8, 42, 21, 23 and 46 under the default
\* weights
RiskInputs ==
    { [analysis |->
          AnalysisOf(Social(0, s, "neutral", << >>, 0),
                     Technical(100, r, "neutral", 50, EmptyDict, NoneStr, 0, "neutral", FALSE),
                     Fundamental(0, pe, NONE, NONE, NONE, NONE, NONE, NONE),
                     get_default_analyst_coverage,
                     Structure(100, 80, si, NONE, NONE, 0)),
       total_score |-> t] :
        s \in {0, 80, 81, 90}, r \in {10, 19, 20, 50, 80, 81, 85},
        pe \in {NONE, 0, 50, 51, 60}, si \in {0, 30, 31},
        t \in {FloatZero, Below(FloatOfInt(30)), FloatOfInt(30), FloatOfInt(70)} }

OpportunityInputs ==
    { AnalysisOf(Social(m, s, "neutral", << >>, 0),
                 Technical(100, 50, "neutral", 50, EmptyDict, NoneStr, 0, t, v),
                 Fundamental(0, pe, NONE, g, NONE, NONE, NONE, NONE),
                 Analyst(r, 5, u, 0, 0),
                 Structure(100, 80, si, NONE, NONE, 0)) :
        m \in {100, 101}, s \in {-31, 0, 31, 51}, t \in {"bullish", "neutral"},
        v \in BOOLEAN, pe \in {NONE, 0, 19, 20}, g \in {NONE, 20, 21},
        r \in {"buy", "hold"}, u \in {15, 16}, si \in {20, 21} }

MaxSignals == 3

\* the float of a decimal literal with three places, and with one
Thousandth(n) == FloatOfRatio(n, 1000)
Tenth(n) == FloatOfRatio(n, 10)

\* a signal as the squeeze detector builds it: strength
\* 0.32 + 0.063 + 0.1 + 0.1 and confidence 0.6 + 0.3 + 0.1, summed in floats
DetectedSqueeze ==
    detect_squeeze_setup(Social(101, 21, "neutral", << >>, 0),
                         Structure(100, 20, 16, NONE, 81, 50),
                         [get_default_technical_analysis EXCEPT !.volume_spike = TRUE]
                        ).signals[1]

\* signals handed to the ranker: the kinds the detectors emit and further
\* types.  Some pairs of different signals have the same importance (the
\* two momentum signals at high risk: 0.7 + 0.6 and 0.6 + 0.7); for others
\* the importance differs only in the last bits of the float (1.3 * 0.75
\* and 1.5 * 0.65, both at low risk; the detected squeeze and the squeeze
\* with strength 1.0 and confidence 0.583)
SignalInputs ==
    { DivergenceSignal("hidden_gem", Thousandth(700), Thousandth(800),
                       "Institutional accumulation", "long", "low", Tenth(240)),
      DivergenceSignal("short_squeeze_setup", Thousandth(600), Thousandth(700),
                       "Retail buying pressure vs short covering", "short", "low",
                       Tenth(500)),
      DivergenceSignal("short_squeeze_setup", Thousandth(900), Thousandth(600),
                       "Retail buying pressure vs short covering", "short", "medium",
                       Tenth(500)),
      DivergenceSignal("short_squeeze_setup", Thousandth(500), Thousandth(600),
                       "Retail buying pressure vs short covering", "short", "medium",
                       Tenth(500)),
      DetectedSqueeze,
      DivergenceSignal("short_squeeze_setup", One, Thousandth(583),
                       "Retail buying pressure vs short covering", "medium", "medium",
                       Tenth(320)),
      DivergenceSignal("momentum_divergence", Thousandth(700), Thousandth(600),
                       "Social media hype", "short", "high", NoneFloat),
      DivergenceSignal("momentum_divergence", Thousandth(600), Thousandth(700),
                       "Social media hype", "short", "high", NoneFloat),
      DivergenceSignal("momentum_divergence", Thousandth(800), Thousandth(600),
                       "Social media hype", "short", "low", NoneFloat),
      DivergenceSignal("retail_bearish_institutional_bullish", Thousandth(800),
                       Thousandth(600), "Institutional accumulation opportunity",
                       "medium", "medium", Tenth(210)),
      DivergenceSignal("value_trap", Thousandth(600), Thousandth(700),
                       "Business deterioration", "long", "medium", Tenth(-150)),
      DivergenceSignal("oversold_reversal", Thousandth(700), Thousandth(600), "Oversold",
                       "short", "unknown", NoneFloat) }

SignalLists == UNION { [1..n -> SignalInputs] : n \in 0..MaxSignals }

\* total scores on both sides of the two priority thresholds
TotalInputs ==
    { FloatZero, FloatOfInt(50), Above(FloatOfInt(50)), FloatOfInt(70),
      Above(FloatOfInt(70)), Hundred }

AlertInputs ==
    { [symbol |-> sym, signals |-> l, total_score |-> t] :
        sym \in Symbols, l \in SignalLists, t \in TotalInputs }

SentimentInputs ==
    { [social |-> Social(100, s, "neutral", << >>, 0),
       analyst |-> Analyst(r, n, u, 0, 0)] :
        s \in {-100, -31, -30, 0, 40, 41, 90}, r \in Ratings,
        n \in {5, 6, 8, 9}, u \in {NONE, 0, 30} }

SqueezeInputs ==
    { [social |-> Social(m, s, "neutral", << >>, 0),
       structure |-> Structure(sh[1], sh[2], si, NONE, u, 50),
       technical |-> [get_default_technical_analysis EXCEPT !.volume_spike = v]] :
        m \in {100, 101, 200, 201, 500, 501}, s \in {-50, 0, 20, 21, 50, 100},
        sh \in {<< 0, 0 >>, << 100, 20 >>, << 100, 90 >>},
        si \in {10, 15, 16, 20, 25, 31, 50, 60}, u \in {NONE, 80, 81},
        v \in BOOLEAN }

ValueTrapInputs ==
    { [fundamental |-> Fundamental(5000, pe, ps, g, pm, NONE, NONE, NONE),
       analyst |-> Analyst("hold", 6, 0, ch[1], ch[2]),
       technical |-> get_default_technical_analysis] :
        pe \in {NONE, -5, 0, 10, 15, 20}, ps \in {NONE, 0, 1, 2, 3},
        g \in {NONE, -20, -10, 0, 5}, pm \in {NONE, -5, 0, 5},
        ch \in {<< 0, 0 >>, << 0, 1 >>, << 1, 0 >>} }

InitPure ==
    /\ pc = "idle"
    /\ PipelineStart
    /\ weights = DefaultWeights
    /\ BatchIdle
    /\ RepeatIdle
    /\ LimiterIdle
    /\ out = NotApplied
    /\ \/ fn = "score_sentiment" /\ arg \in SocialInputs
       \/ fn = "score_technical" /\ arg \in TechnicalInputs
       \/ fn = "score_fundamental" /\ arg \in FundamentalInputs
       \/ fn = "score_analyst_coverage" /\ arg \in AnalystInputs
       \/ fn = "score_stock_structure" /\ arg \in StructureInputs
       \/ fn = "determine_risk_level" /\ arg \in RiskInputs
       \/ fn = "determine_opportunity_type" /\ arg \in OpportunityInputs
       \/ fn = "rank_signals_by_importance" /\ arg \in SignalLists
       \/ fn = "convert_signals_to_alerts" /\ arg \in AlertInputs
       \/ fn = "detect_value_trap" /\ arg \in ValueTrapInputs
       \/ fn = "detect_squeeze_setup" /\ arg \in SqueezeInputs
       \/ fn = "detect_sentiment_divergence" /\ arg \in SentimentInputs

Store(value) ==
    /\ ~out.done
    /\ out' = Applied(value)
    /\ UNCHANGED << pc, symbol, weights, tasks, analystStep, raisedBy, returned,
                    analysis, composite_score, signals, result, fn, arg, batchVars, repeatVars, limiterVars >>

ApplyScoreSentiment ==
    /\ fn = "score_sentiment"
    /\ Store(score_sentiment(arg))
ApplyScoreTechnical ==
    /\ fn = "score_technical"
    /\ Store(score_technical(arg))
ApplyScoreFundamental ==
    /\ fn = "score_fundamental"
    /\ Store(score_fundamental(arg))
ApplyScoreAnalystCoverage ==
    /\ fn = "score_analyst_coverage"
    /\ Store(score_analyst_coverage(arg))
ApplyScoreStockStructure ==
    /\ fn = "score_stock_structure"
    /\ Store(score_stock_structure(arg))
ApplyDetermineRiskLevel ==
    /\ fn = "determine_risk_level"
    /\ Store(determine_risk_level(arg.analysis, arg.total_score))
ApplyDetermineOpportunityType ==
    /\ fn = "determine_opportunity_type"
    /\ Store(determine_opportunity_type(arg))

ApplyRankSignalsByImportance ==
    /\ fn = "rank_signals_by_importance"
    /\ Store(rank_signals_by_importance(arg))

ApplyConvertSignalsToAlerts ==
    /\ fn = "convert_signals_to_alerts"
    /\ Store(convert_signals_to_alerts(arg.symbol, arg.signals, arg.total_score))

ApplyDetectSentimentDivergence ==
    /\ fn = "detect_sentiment_divergence"
    /\ Store(detect_sentiment_divergence(arg.social, arg.analyst))

ApplyDetectSqueezeSetup ==
    /\ fn = "detect_squeeze_setup"
    /\ Store(detect_squeeze_setup(arg.social, arg.structure, arg.technical))

ApplyDetectValueTrap ==
    /\ fn = "detect_value_trap"
    /\ Store(detect_value_trap(arg.fundamental, arg.analyst, arg.technical))

NextPure ==
    \/ ApplyScoreSentiment
    \/ ApplyScoreTechnical
    \/ ApplyScoreFundamental
    \/ ApplyScoreAnalystCoverage
    \/ ApplyScoreStockStructure
    \/ ApplyDetermineRiskLevel
    \/ ApplyDetermineOpportunityType
    \/ ApplyRankSignalsByImportance
    \/ ApplyConvertSignalsToAlerts
    \/ ApplyDetectValueTrap
    \/ ApplyDetectSqueezeSetup
    \/ ApplyDetectSentimentDivergence

SpecPure == InitPure /\ [][NextPure]_vars

(***************************************************************************)
(* analyze_multiple_stocks: one analyze_with_semaphore task per requested  *)
(* symbol, gathered, all entering analyze_stock through one semaphore.     *)
(***************************************************************************)
MaxSymbols == 5
BatchSymbols == {"gme", "amc"}
SymbolLists ==
    UNION { [1..n -> BatchSymbols] : n \in 0..MaxSymbols }

\* asyncio.Semaphore(3)
semaphore_limit == 3

\* analyze_stock returns the analysis, or None from its except branch
AnalyzeStockReturns == {"StockAnalysis", "None"}

NotReturned == "not returned"

\* mutant of locked: the semaphore never reports itself locked
LockedNever(value, waiting) == FALSE

\* Semaphore.locked(): no permit left, or some task already waits
locked(value, waiting) == value = 0 \/ waiting # << >>

Tasks == 1..Len(symbols)

InProgress == { i \in Tasks : task_pc[i] = "analysing" }

RemoveWaiter(waiting, i) == SelectSeq(waiting, LAMBDA w : w # i)

\* a variant of _wake_up_next that never finds a waiter to wake
NextWaiterNone(waiting, positions) == 0

\* first waiter whose future is not done yet, 0 if there is none
NextWaiter(waiting, positions) ==
    LET notDone == SelectSeq(waiting, LAMBDA w : positions[w] = "waiting")
    IN  IF notDone = << >> THEN 0 ELSE Head(notDone)

InitBatch ==
    /\ pc = "idle"
    /\ PipelineStart
    /\ weights = DefaultWeights
    /\ fn = "none" /\ arg = NoneValue /\ out = NotApplied
    /\ RepeatIdle
    /\ LimiterIdle
    /\ symbols \in SymbolLists
    /\ semaphore_value = semaphore_limit
    /\ waiters = << >>
    /\ task_pc = [i \in 1..Len(symbols) |-> "created"]
    /\ analyses = [i \in 1..Len(symbols) |-> NotReturned]
    /\ results = Pending

\* first step of a task: async with semaphore, the permit is free
acquire_permit(i) ==
    /\ i \in Tasks
    /\ task_pc[i] = "created"
    /\ \A j \in 1..(i - 1) : task_pc[j] # "created"
    /\ ~locked(semaphore_value, waiters)
    /\ semaphore_value' = semaphore_value - 1
    /\ task_pc' = [task_pc EXCEPT ![i] = "analysing"]
    /\ UNCHANGED << pipelineVars, pureVars, repeatVars, limiterVars, symbols, waiters, analyses, results >>

\* first step of a task: async with semaphore, the task has to wait
acquire_waits(i) ==
    /\ i \in Tasks
    /\ task_pc[i] = "created"
    /\ \A j \in 1..(i - 1) : task_pc[j] # "created"
    /\ locked(semaphore_value, waiters)
    /\ waiters' = Append(waiters, i)
    /\ task_pc' = [task_pc EXCEPT ![i] = "waiting"]
    /\ UNCHANGED << pipelineVars, pureVars, repeatVars, limiterVars, symbols, semaphore_value, analyses,
                    results >>

\* a woken waiter resumes in acquire, leaves the queue and enters analyze_stock
waiter_resumes(i) ==
    /\ i \in Tasks
    /\ task_pc[i] = "woken"
    /\ LET remaining == RemoveWaiter(waiters, i)
           next == NextWaiter(remaining, task_pc)
       IN  /\ waiters' = remaining
           /\ IF semaphore_value > 0 /\ next # 0
              THEN /\ semaphore_value' = semaphore_value - 1
                   /\ task_pc' = [task_pc EXCEPT ![i] = "analysing",
                                                 ![next] = "woken"]
              ELSE /\ semaphore_value' = semaphore_value
                   /\ task_pc' = [task_pc EXCEPT ![i] = "analysing"]
    /\ UNCHANGED << pipelineVars, pureVars, repeatVars, limiterVars, symbols, analyses, results >>

\* analyze_stock returns, the async with block releases the permit and
\* wakes the next waiter, the task finishes with the value
analyze_stock_returns(i, value) ==
    /\ i \in Tasks
    /\ task_pc[i] = "analysing"
    /\ analyses' = [analyses EXCEPT ![i] = value]
    /\ LET next == NextWaiter(waiters, task_pc)
       IN  IF next # 0
           THEN /\ semaphore_value' = semaphore_value
                /\ task_pc' = [task_pc EXCEPT ![i] = "finished", ![next] = "woken"]
           ELSE /\ semaphore_value' = semaphore_value + 1
                /\ task_pc' = [task_pc EXCEPT ![i] = "finished"]
    /\ UNCHANGED << pipelineVars, pureVars, repeatVars, limiterVars, symbols, waiters, results >>

\* results of the zip loop: a later entry of the same symbol overwrites
ResultsDict(syms, values) ==
    [s \in { syms[i] : i \in 1..Len(syms) } |->
        values[CHOOSE i \in 1..Len(syms) :
                  /\ syms[i] = s
                  /\ \A j \in 1..Len(syms) : syms[j] = s => j <= i]]

\* asyncio.gather has every task's value: the zip loop fills results
return_results ==
    /\ results = Pending
    /\ \A i \in Tasks : task_pc[i] = "finished"
    /\ results' = ResultsDict(symbols, analyses)
    /\ UNCHANGED << pipelineVars, pureVars, repeatVars, limiterVars, symbols, semaphore_value, waiters,
                    task_pc, analyses >>

NextBatch ==
    \/ \E i \in Tasks : acquire_permit(i)
    \/ \E i \in Tasks : acquire_waits(i)
    \/ \E i \in Tasks : waiter_resumes(i)
    \/ \E i \in Tasks, value \in AnalyzeStockReturns : analyze_stock_returns(i, value)
    \/ return_results

SpecBatch == InitBatch /\ [][NextBatch]_vars

\* the event loop runs every task that is ready, and every provider call
\* eventually returns or raises, so every analyze_stock call returns
FairSpecBatch == SpecBatch /\ WF_vars(NextBatch)

(***************************************************************************)
(* Scoring, detection and alert synthesis run repeatedly over one set of   *)
(* snapshots; the records they build carry timestamp = datetime.now().     *)
(***************************************************************************)
MaxClock == 2
MaxRuns == 2

\* the snapshots the runs are made over: every social, technical and
\* structure return of the providers, with two of the fundamental and two of
\* the analyst returns
RepeatFundamentals ==
    { f \in FundamentalReturns : f.market_cap \in {5000, 2000} }

RepeatAnalysts ==
    { a \in AnalystReturns : a.consensus_rating \in {"strong_buy", "sell"} }

RepeatAnalyses ==
    { AnalysisOf(s, t, f, a, st) :
        s \in SocialReturns, t \in TechnicalReturns, f \in RepeatFundamentals,
        a \in RepeatAnalysts, st \in StructureReturns }

\* timestamp=datetime.now() of a record under construction
Stamped(record, now) ==
    [f \in DOMAIN record \cup {"timestamp"} |->
        IF f = "timestamp" THEN now ELSE record[f]]

\* the clock is read once for each alert, inside the loop over the signals
StampedAlerts(alerts, readings) ==
    [k \in 1..Len(alerts) |-> Stamped(alerts[k], readings[k])]

\* n successive readings of a clock that stands at from or later and does
\* not pass to
ClockReadings(n, from, to) ==
    { readings \in [1..n -> from..to] :
        \A k \in 1..(n - 1) : readings[k] <= readings[k + 1] }

InitRepeat ==
    /\ pc = "idle"
    /\ symbol = "gme"
    /\ weights \in WeightConfigs
    /\ tasks = [d \in Domains |-> Pending]
    /\ analystStep = "technical"
    /\ raisedBy = {}
    /\ returned = [d \in Domains |-> Pending]
    /\ analysis \in RepeatAnalyses
    /\ composite_score = NoneValue
    /\ signals = << >>
    /\ result = Pending
    /\ fn = "none" /\ arg = NoneValue /\ out = NotApplied
    /\ BatchIdle
    /\ RepeatIdle
    /\ LimiterIdle

\* time passes
tick ==
    /\ clock < MaxClock
    /\ clock' = clock + 1
    /\ UNCHANGED << pipelineVars, pureVars, batchVars, limiterVars, runs >>

\* the three steps of analyze_stock after the analysis object is built: the
\* score is stamped when it is constructed and assigned to the analysis, the
\* alerts are stamped one by one as the clock moves on and assigned to the
\* analysis, which is returned
run_analysis ==
    /\ Len(runs) < MaxRuns
    /\ composite_score' = Stamped(calculate_composite_score(analysis, weights), clock)
    /\ signals' = detect_all_divergences(analysis)
    /\ LET alerts == convert_signals_to_alerts(analysis.symbol, signals',
                                               composite_score'.total_score)
       IN  \E end \in clock..MaxClock :
             \E readings \in ClockReadings(Len(alerts), clock, end) :
               /\ analysis' = [SetCompositeScore(analysis, composite_score') EXCEPT
                                  !.alerts = StampedAlerts(alerts, readings)]
               /\ result' = analysis'
               /\ runs' = Append(runs, [composite_score |-> composite_score',
                                        alerts |-> analysis'.alerts])
               /\ clock' = end
    /\ UNCHANGED << pc, symbol, weights, tasks, analystStep, raisedBy, returned,
                    pureVars, batchVars, limiterVars >>

NextRepeat ==
    \/ tick
    \/ run_analysis

SpecRepeat == InitRepeat /\ [][NextRepeat]_vars

(***************************************************************************)
(* RateLimiter: several coroutines of one event loop call wait() on one    *)
(* limiter.  Times are whole seconds since the limiter was constructed.    *)
(* wait() runs without interruption up to each await asyncio.sleep(...),   *)
(* where other callers may run and the clock moves on.                     *)
(***************************************************************************)
MaxCallers == 3
MaxTime == 125
Callers == 1..MaxCallers
\* timedelta(minutes=1) and the literal 60 of wait(), in seconds
minute == 60
\* asyncio.sleep(1) between bursts
burst_sleep == 1
\* constructor arguments of the limiters that are checked
RequestsPerMinuteInputs == {1, 2}
BurstLimitInputs == {2, 10}
\* seconds between the instants at which callers arrive
Elapses == {30}
NotCompleted == -1

\* min(self.requests)
RECURSIVE MinOf(_)
MinOf(times) ==
    IF Len(times) = 1 THEN Head(times)
    ELSE LET rest == MinOf(Tail(times))
         IN IF Head(times) <= rest THEN Head(times) ELSE rest

\* [req_time for req_time in self.requests if req_time > cutoff_time]
RecentRequests(times, cutoff_time) ==
    LET Recent(req_time) == req_time > cutoff_time
    IN SelectSeq(times, Recent)

InitLimiter ==
    /\ pc = "idle"
    /\ PipelineStart
    /\ weights = DefaultWeights
    /\ fn = "none" /\ arg = NoneValue /\ out = NotApplied
    /\ BatchIdle
    /\ RepeatIdle
    /\ time = 0
    /\ requests_per_minute \in RequestsPerMinuteInputs
    /\ burst_limit \in BurstLimitInputs
    /\ requests = << >>
    /\ burst_count = 0
    /\ last_reset = 0
    /\ caller_pc = [c \in Callers |-> "not_called"]
    /\ caller_now = [c \in Callers |-> 0]
    /\ wake_at = [c \in Callers |-> 0]
    /\ completed_at = [c \in Callers |-> NotCompleted]

\* self.requests.append(now); self.burst_count += 1; wait() returns
record_request(c, now, reqs, bursts) ==
    /\ requests' = Append(reqs, now)
    /\ burst_count' = bursts + 1
    /\ caller_pc' = [caller_pc EXCEPT ![c] = "returned"]
    /\ completed_at' = [completed_at EXCEPT ![c] = time]
    /\ UNCHANGED wake_at

\* the burst test: sleep one second when the burst is used up, else record
burst_check(c, now, reqs, bursts) ==
    IF bursts >= burst_limit
    THEN /\ caller_pc' = [caller_pc EXCEPT ![c] = "burst_sleep"]
         /\ wake_at' = [wake_at EXCEPT ![c] = time + burst_sleep]
         /\ requests' = reqs
         /\ burst_count' = bursts
         /\ UNCHANGED completed_at
    ELSE record_request(c, now, reqs, bursts)

\* wait() from its first line to its first await or its return
wait_called(c) ==
    /\ caller_pc[c] = "not_called"
    /\ LET now == time
           reset == now - last_reset > minute
           bursts == IF reset THEN 0 ELSE burst_count
           cutoff_time == now - minute
           reqs == RecentRequests(requests, cutoff_time)
           limited == Len(reqs) >= requests_per_minute
           wait_time == minute - (now - MinOf(reqs))
       IN /\ caller_now' = [caller_now EXCEPT ![c] = now]
          /\ last_reset' = IF reset THEN now ELSE last_reset
          /\ IF limited /\ wait_time > 0
             THEN /\ caller_pc' = [caller_pc EXCEPT ![c] = "rate_sleep"]
                  /\ wake_at' = [wake_at EXCEPT ![c] = time + wait_time]
                  /\ requests' = reqs
                  /\ burst_count' = bursts
                  /\ UNCHANGED completed_at
             ELSE burst_check(c, now, reqs, bursts)
    /\ UNCHANGED << pipelineVars, pureVars, batchVars, repeatVars, time,
                    requests_per_minute, burst_limit >>

\* await asyncio.sleep(wait_time) is over: wait() goes on to the burst test
rate_sleep_ends(c) ==
    /\ caller_pc[c] = "rate_sleep"
    /\ time >= wake_at[c]
    /\ burst_check(c, caller_now[c], requests, burst_count)
    /\ UNCHANGED << pipelineVars, pureVars, batchVars, repeatVars, time,
                    requests_per_minute, burst_limit, last_reset, caller_now >>

\* await asyncio.sleep(1) is over: self.burst_count = 0, then record
burst_sleep_ends(c) ==
    /\ caller_pc[c] = "burst_sleep"
    /\ time >= wake_at[c]
    /\ record_request(c, caller_now[c], requests, 0)
    /\ UNCHANGED << pipelineVars, pureVars, batchVars, repeatVars, time,
                    requests_per_minute, burst_limit, last_reset, caller_now >>

\* the clock reaches the instant at which a caller's asyncio.sleep is due
sleep_falls_due(c) ==
    /\ caller_pc[c] \in {"rate_sleep", "burst_sleep"}
    /\ wake_at[c] > time
    /\ wake_at[c] <= MaxTime
    /\ time' = wake_at[c]
    /\ UNCHANGED << pipelineVars, pureVars, batchVars, repeatVars,
                    requests_per_minute, burst_limit, requests, burst_count,
                    last_reset, caller_pc, caller_now, wake_at, completed_at >>

\* the clock moves on while no coroutine runs
time_passes(elapsed) ==
    /\ time + elapsed <= MaxTime
    /\ time' = time + elapsed
    /\ UNCHANGED << pipelineVars, pureVars, batchVars, repeatVars,
                    requests_per_minute, burst_limit, requests, burst_count,
                    last_reset, caller_pc, caller_now, wake_at, completed_at >>

NextLimiter ==
    \/ \E c \in Callers : wait_called(c)
    \/ \E c \in Callers : rate_sleep_ends(c)
    \/ \E c \in Callers : burst_sleep_ends(c)
    \/ \E c \in Callers : sleep_falls_due(c)
    \/ \E elapsed \in Elapses : time_passes(elapsed)

SpecLimiter == InitLimiter /\ [][NextLimiter]_vars

(***************************************************************************)
(* Properties.                                                             *)
(***************************************************************************)
\* A domain score is a whole number of 1/ScoreUnit of a point and a total
\* score of 1/TotalUnit, up to the rounding of the float operations; the
\* strength and the confidence of a signal are whole thousandths and an
\* expected move whole tenths.  These read a float as its decimal value.
ScoreUnit == 300
TotalUnit == ScoreUnit * WeightUnit
Thousandths(f) == Rounded(f, 1000)
Tenths(f) == Rounded(f, 10)

InRange(f, low, high) == FloatLeq(low, f) /\ FloatLeq(f, high)

ScorerNames ==
    {"score_sentiment", "score_technical", "score_fundamental",
     "score_analyst_coverage", "score_stock_structure"}

AllOptionalAbsent(fundamental) ==
    /\ fundamental.pe_ratio = NONE /\ fundamental.ps_ratio = NONE
    /\ fundamental.revenue_growth_yoy = NONE /\ fundamental.profit_margin = NONE
    /\ fundamental.debt_to_equity = NONE /\ fundamental.current_ratio = NONE
    /\ fundamental.roe = NONE

\* C1: every domain scorer, applied to any snapshot (optional fields absent
\* or not, a factor raising part-way or not), returns a score in [0,100].
C1_ScorersInRange ==
    (fn \in ScorerNames /\ out.done) =>
        InRange(out.value, FloatZero, Hundred)

\* the fundamental scorer has returned for a snapshot with no optional field
C1_Witness ==
    /\ fn = "score_fundamental"
    /\ AllOptionalAbsent(arg)
    /\ out.done
    /\ InRange(out.value, FloatZero, Hundred)

\* C2 (as stated): every CompositeScore has total_score in [0,100] for the
\* weights loaded from configuration.
C2_TotalInRange ==
    (composite_score # NoneValue) =>
        InRange(composite_score.total_score, FloatZero, Hundred)

\* C2 (amended): every CompositeScore has total_score in [0,100] when the
\* configured weights are the shipped defaults 0.25, 0.25, 0.20, 0.15, 0.15.
C2_TotalInRangeDefaultWeights ==
    (composite_score # NoneValue /\ weights = DefaultWeights) =>
        InRange(composite_score.total_score, FloatZero, Hundred)

\* a composite score computed under the shipped weights, all scorers having run
C2_Witness ==
    /\ composite_score # NoneValue
    /\ weights = DefaultWeights
    /\ composite_score.opportunity_type # "unknown"
    /\ FloatGreater(composite_score.total_score, FloatOfInt(50))

Built == pc \in {"score", "detect", "alerts", "done"}

SnapshotOf(a, d) ==
    CASE d = "social" -> a.social_sentiment
      [] d = "technical" -> a.technical_analysis
      [] d = "fundamental" -> a.fundamental_data
      [] d = "analyst" -> a.analyst_coverage
      [] d = "structure" -> a.stock_structure

FailedTasks == { d \in Domains : IsException(tasks[d]) }

\* C3: when a provider task raised, the snapshot of its domain in the
\* analysis is the documented neutral default (fundamental: market cap 0 and
\* every optional field absent; technical: RSI 50; social: sentiment 0 and
\* mentions 0; analyst and structure: all counts 0), and the analysis that
\* analyze_stock returns carries a composite score.
C3_DefaultOnProviderFailure ==
    /\ Built =>
        /\ IsException(tasks["social"]) =>
              /\ analysis.social_sentiment.sentiment_score = 0
              /\ analysis.social_sentiment.mentions = 0
              /\ analysis.social_sentiment.influencer_mentions = 0
        /\ IsException(tasks["technical"]) =>
              /\ analysis.technical_analysis.rsi = 50
              /\ analysis.technical_analysis.volume = 0
        /\ IsException(tasks["fundamental"]) =>
              /\ analysis.fundamental_data.market_cap = 0
              /\ AllOptionalAbsent(analysis.fundamental_data)
              /\ analysis.fundamental_data.free_cash_flow = NONE
              /\ analysis.fundamental_data.enterprise_value = NONE
              /\ analysis.fundamental_data.book_value = NONE
        /\ IsException(tasks["analyst"]) =>
              /\ analysis.analyst_coverage.num_analysts = 0
              /\ analysis.analyst_coverage.recent_upgrades = 0
              /\ analysis.analyst_coverage.recent_downgrades = 0
        /\ IsException(tasks["structure"]) =>
              /\ analysis.stock_structure.shares_outstanding = 0
              /\ analysis.stock_structure.short_interest = 0
    /\ (pc = "done" /\ FailedTasks # {}) =>
        /\ result.kind = "StockAnalysis"
        /\ result.composite_score.kind = "CompositeScore"

\* analyze_stock has returned after the fundamental provider alone raised
C3_Witness ==
    /\ pc = "done"
    /\ FailedTasks = {"fundamental"}
    /\ raisedBy = {"fundamental"}
    /\ result.fundamental_data.market_cap = 0
    /\ result.fundamental_data.pe_ratio = NONE
    /\ result.composite_score.kind = "CompositeScore"

\* C4 (as stated): when exactly one provider failed, the snapshots of the
\* other four domains in the analysis are the ones their providers returned.
C4_ProvidersIndependent ==
    (Built /\ Cardinality(raisedBy) = 1) =>
        \A d \in Domains \ raisedBy : SnapshotOf(analysis, d) = returned[d]

SnapshotKind ==
    [social |-> "SocialSentiment", technical |-> "TechnicalAnalysis",
     fundamental |-> "FundamentalData", analyst |-> "AnalystCoverage",
     structure |-> "StockStructure"]

\* C5: what analyze_stock returns is a StockAnalysis whose five snapshots are
\* populated, whose composite_score is a CompositeScore and whose alerts is a
\* list; it never returns an analysis with a snapshot or the score missing.
C5_NoPartialAnalysis ==
    (result # Pending) =>
        /\ pc = "done"
        /\ result.kind = "StockAnalysis"
        /\ \A d \in Domains : SnapshotOf(result, d).kind = SnapshotKind[d]
        /\ result.composite_score.kind = "CompositeScore"
        /\ DOMAIN result.alerts = 1..Len(result.alerts)

\* an analysis was returned that mixes real and default snapshots and
\* carries an alert
C5_Witness ==
    /\ result # Pending
    /\ result.fundamental_data = get_default_fundamental_data
    /\ result.social_sentiment \in SocialReturns
    /\ result.composite_score.kind = "CompositeScore"
    /\ Len(result.alerts) > 0

Detected == pc \in {"alerts", "done"}

\* C6 (as stated): the list detect_all_divergences returns holds the signals
\* of every detector that did not raise, whether or not another one raised.
C6_DetectorsIsolated ==
    Detected =>
        \A i \in 1..Len(Detectors) :
            LET r == RunDetector(Detectors[i], analysis)
            IN  ~r.raises =>
                    \A j \in 1..Len(r.signals) :
                        \E k \in 1..Len(signals) :
                            signals[k].divergence_type = r.signals[j].divergence_type

Raises(steps) == \E i \in 1..Len(steps) : steps[i].raises

Scored == composite_score # NoneValue

\* C7 (as stated): a scorer that hit an internal exception contributes the
\* component score 0 to the CompositeScore the aggregator builds.
C7_ScorerFaultGivesZero ==
    (Scored /\ composite_score.opportunity_type # "unknown") =>
        /\ Raises(SocialSteps(analysis.social_sentiment)) =>
              composite_score.social_score = FloatZero
        /\ Raises(TechnicalSteps(analysis.technical_analysis)) =>
              composite_score.technical_score = FloatZero
        /\ Raises(AnalystSteps(analysis.analyst_coverage)) =>
              composite_score.analyst_score = FloatZero

\* a comparison against None in the classification steps of the aggregator
RsiMissing == analysis.technical_analysis.rsi = NONE
UpsideReadWhileMissing ==
    /\ analysis.analyst_coverage.price_target_upside = NONE
    /\ ~ShortSqueezeRule(analysis)
    /\ ~MomentumRule(analysis)
    /\ ~ValueRule(analysis)
    /\ Truthy(analysis.fundamental_data.revenue_growth_yoy)
    /\ analysis.fundamental_data.revenue_growth_yoy > 20

\* C8: when a step of calculate_composite_score raises (here: the risk or
\* the opportunity classification comparing a None), the CompositeScore
\* returned has total, the five component scores and confidence all 0 and
\* risk_level and opportunity_type both "unknown".
C8_ZeroScoreOnAggregatorFault ==
    (Scored /\ (RsiMissing \/ UpsideReadWhileMissing)) =>
        /\ composite_score.kind = "CompositeScore"
        /\ composite_score.total_score = FloatZero
        /\ composite_score.social_score = FloatZero
        /\ composite_score.technical_score = FloatZero
        /\ composite_score.fundamental_score = FloatZero
        /\ composite_score.analyst_score = FloatZero
        /\ composite_score.structure_score = FloatZero
        /\ composite_score.confidence_level = FloatZero
        /\ composite_score.risk_level = "unknown"
        /\ composite_score.opportunity_type = "unknown"

\* the opportunity classification raised although no RSI was missing, and the
\* zero score was returned and attached to the analysis
C8_Witness ==
    /\ pc = "done"
    /\ UpsideReadWhileMissing
    /\ ~RsiMissing
    /\ result.composite_score.risk_level = "unknown"
    /\ result.composite_score.total_score = FloatZero

\* the five risk indicators as the specification lists them
IndicatorsHolding(a, total) ==
    { i \in 1..5 :
        CASE i = 1 -> a.technical_analysis.rsi < 20 \/ a.technical_analysis.rsi > 80
          [] i = 2 -> a.fundamental_data.pe_ratio # NONE /\ a.fundamental_data.pe_ratio > 50
          [] i = 3 -> a.social_sentiment.sentiment_score > 80
          [] i = 4 -> a.stock_structure.short_interest > 30
          [] i = 5 -> FloatLess(total, FloatOfInt(30)) }

\* C9: risk_level is "high" when at least three of the five indicators
\* hold, "medium" when one or two hold and "low" when none holds; RSI 85,
\* P/E 60 and sentiment 0.9 give "high" whatever the total score is.
C9_RiskLevelByIndicatorCount ==
    (fn = "determine_risk_level" /\ out.done) =>
        LET n == Cardinality(IndicatorsHolding(arg.analysis, arg.total_score))
        IN  /\ (n >= 3) => out.value = "high"
            /\ (n \in {1, 2}) => out.value = "medium"
            /\ (n = 0) => out.value = "low"
            /\ (/\ arg.analysis.technical_analysis.rsi = 85
                /\ arg.analysis.fundamental_data.pe_ratio = 60
                /\ arg.analysis.social_sentiment.sentiment_score = 90)
               => out.value = "high"

\* the example of the claim, with a total score that is not itself a risk
\* indicator: exactly three indicators hold
C9_Witness ==
    /\ fn = "determine_risk_level"
    /\ out.done
    /\ arg.analysis.technical_analysis.rsi = 85
    /\ arg.analysis.fundamental_data.pe_ratio = 60
    /\ arg.analysis.social_sentiment.sentiment_score = 90
    /\ arg.analysis.stock_structure.short_interest = 0
    /\ arg.total_score = FloatOfInt(70)
    /\ out.value = "high"

\* the short_squeeze predicate as the claim states it
SqueezePredicate(a) ==
    /\ a.stock_structure.short_interest > 20
    /\ a.social_sentiment.sentiment_score > 30
    /\ a.social_sentiment.mentions > 100

\* C10: opportunity_type is the first rule that matches in the order
\* short_squeeze, momentum, value, growth, contrarian, and "general" when
\* none matches; a snapshot set matching both the short_squeeze and the
\* momentum predicate is classified short_squeeze.
C10_FirstMatchingRule ==
    (fn = "determine_opportunity_type" /\ out.done) =>
        out.value =
            CASE SqueezePredicate(arg) -> "short_squeeze"
              [] ~SqueezePredicate(arg) /\ MomentumRule(arg) -> "momentum"
              [] ~SqueezePredicate(arg) /\ ~MomentumRule(arg) /\ ValueRule(arg) -> "value"
              [] ~SqueezePredicate(arg) /\ ~MomentumRule(arg) /\ ~ValueRule(arg)
                    /\ GrowthRule(arg) -> "growth"
              [] ~SqueezePredicate(arg) /\ ~MomentumRule(arg) /\ ~ValueRule(arg)
                    /\ ~GrowthRule(arg) /\ ContrarianRule(arg) -> "contrarian"
              [] OTHER -> "general"

\* both the short_squeeze and the momentum predicate hold
C10_Witness ==
    /\ fn = "determine_opportunity_type"
    /\ out.done
    /\ SqueezePredicate(arg)
    /\ arg.social_sentiment.sentiment_score > 50
    /\ arg.technical_analysis.trend_direction = "bullish"
    /\ arg.technical_analysis.volume_spike
    /\ out.value = "short_squeeze"

IndexPermutations(n) == { p \in [1..n -> 1..n] : \A i, j \in 1..n : i # j => p[i] # p[j] }

\* importance as the specification writes it,
\* ((strength + confidence) / 2) * type_multiplier * risk_adjustment, of the
\* floats the signal carries, each operation rounded as a float operation is
ImportanceOf(sig) ==
    FloatMul(
        FloatMul(FloatDivInt(FloatAdd(sig.strength, sig.confidence), 2),
                 Tenth(CASE sig.divergence_type = "short_squeeze_setup" -> 15
                         [] sig.divergence_type = "hidden_gem" -> 13
                         [] sig.divergence_type = "retail_bearish_institutional_bullish" -> 12
                         [] sig.divergence_type = "momentum_divergence" -> 10
                         [] sig.divergence_type = "retail_bullish_institutional_bearish" -> 8
                         [] sig.divergence_type = "value_trap" -> 7
                         [] sig.divergence_type = "hype_bubble" -> 6
                         [] OTHER -> 10)),
        Tenth(CASE sig.risk_level = "low" -> 12
                [] sig.risk_level = "medium" -> 10
                [] sig.risk_level = "high" -> 8
                [] OTHER -> 10))

\* the importance of every signal of a list
ImportanceOfEach(sigs) == [k \in 1..Len(sigs) |-> ImportanceOf(sigs[k])]

\* the list ranked is the list given rearranged by p, in non-increasing
\* importance, signals of equal importance in the order they were given
StableDescending(given, ranked, importance, p) ==
    /\ \A k \in 1..Len(given) : ranked[k] = given[p[k]]
    /\ \A k, l \in 1..Len(given) :
          k < l =>
              \/ FloatGreater(importance[k], importance[l])
              \/ /\ importance[k] = importance[l]
                 /\ p[k] < p[l]

RankedAs(given, ranked, importance) ==
    /\ Len(ranked) = Len(given)
    /\ \E p \in IndexPermutations(Len(given)) :
          StableDescending(given, ranked, importance, p)

\* C11: rank_signals_by_importance returns a permutation of its input in
\* non-increasing importance, signals of equal importance keeping their
\* input order; of two signals differing only in strength (0.9 and 0.5) the
\* 0.9 one comes first.
C11_RankIsStableDescendingPermutation ==
    (fn = "rank_signals_by_importance" /\ out.done) =>
        /\ RankedAs(arg, out.value, ImportanceOfEach(out.value))
        /\ \A i, j \in 1..Len(arg) :
              (/\ arg[i].strength = Thousandth(900) /\ arg[j].strength = Thousandth(500)
               /\ [arg[i] EXCEPT !.strength = Thousandth(500)] = arg[j])
              => \E k, l \in 1..Len(arg) :
                    k < l /\ out.value[k] = arg[i] /\ out.value[l] = arg[j]

\* three signals are ranked: the first two differ and have the same
\* importance, the third is more important than both; it comes out first
\* and the other two keep their order
C11_Witness ==
    /\ fn = "rank_signals_by_importance"
    /\ out.done
    /\ Len(arg) = 3
    /\ arg[1] # arg[2]
    /\ ImportanceOf(arg[1]) = ImportanceOf(arg[2])
    /\ FloatGreater(ImportanceOf(arg[3]), ImportanceOf(arg[1]))
    /\ out.value = << arg[3], arg[1], arg[2] >>

\* C12 (as stated): the alerts of a returned analysis are in ranked order:
\* the signal behind each alert is at least as important as the signal
\* behind the next alert.
C12_AlertsInRankedOrder ==
    (pc = "done") =>
        /\ Len(result.alerts) = Len(signals)
        /\ \A k \in 1..(Len(signals) - 1) :
              /\ result.alerts[k].alert_type = signals[k].divergence_type
              /\ FloatGeq(ImportanceOf(signals[k]), ImportanceOf(signals[k + 1]))

\* C13: _convert_signals_to_alerts returns one alert per signal, in the
\* same order, whose score is the composite total score and whose priority
\* is "high" if strength > 0.8 and total > 70, else "medium" if
\* strength > 0.6 and total > 50, else "low".
C13_OneAlertPerSignalWithPriority ==
    (fn = "convert_signals_to_alerts" /\ out.done) =>
        /\ Len(out.value) = Len(arg.signals)
        /\ \A k \in 1..Len(arg.signals) :
              /\ out.value[k].alert_type = arg.signals[k].divergence_type
              /\ out.value[k].symbol = arg.symbol
              /\ out.value[k].score = arg.total_score
              /\ out.value[k].priority =
                    IF /\ FloatGreater(arg.signals[k].strength, Tenth(8))
                       /\ FloatGreater(arg.total_score, FloatOfInt(70))
                    THEN "high"
                    ELSE IF /\ FloatGreater(arg.signals[k].strength, Tenth(6))
                            /\ FloatGreater(arg.total_score, FloatOfInt(50))
                    THEN "medium"
                    ELSE "low"

\* three signals became three alerts of three different priorities
C13_Witness ==
    /\ fn = "convert_signals_to_alerts"
    /\ out.done
    /\ Len(arg.signals) = 3
    /\ arg.total_score = Above(FloatOfInt(70))
    /\ arg.signals[1].strength = Thousandth(600)
    /\ arg.signals[2].strength = Thousandth(900)
    /\ arg.signals[3].strength = Thousandth(800)
    /\ out.value[1].priority = "low"
    /\ out.value[2].priority = "high"
    /\ out.value[3].priority = "medium"

\* C14: while analyze_multiple_stocks runs, at most 3 analyze_stock calls are
\* in progress, whatever the number of requested symbols and however the
\* tasks interleave.
C14_AtMostThreeInProgress ==
    /\ Cardinality(InProgress) <= 3
    /\ semaphore_value >= 0
    /\ Cardinality(InProgress) <= semaphore_limit - semaphore_value

\* five symbols requested: three analyses are in progress while the other
\* two tasks wait for a permit
C14_Witness ==
    /\ Len(symbols) = 5
    /\ Cardinality(InProgress) = 3
    /\ Len(waiters) = 2
    /\ \A i \in Tasks : task_pc[i] \in {"analysing", "waiting"}
    /\ semaphore_value = 0

\* C15 (as stated): running scoring, detection and alert synthesis twice on
\* identical snapshots and identical weights yields an identical
\* CompositeScore and an identical ordered list of alerts.
C15_RepeatedRunsIdentical ==
    (Len(runs) = 2) =>
        /\ runs[1].composite_score = runs[2].composite_score
        /\ runs[1].alerts = runs[2].alerts

\* the snapshot set of the end-to-end example: the stated fields, every other
\* field at the default of its domain
ExampleSnapshots(a) ==
    /\ a.social_sentiment =
          [get_default_social_sentiment EXCEPT !.mentions = 500, !.sentiment_score = 40]
    /\ a.technical_analysis =
          [get_default_technical_analysis EXCEPT !.volume_spike = TRUE,
                                                 !.trend_direction = "neutral"]
    /\ a.fundamental_data = get_default_fundamental_data
    /\ a.analyst_coverage = get_default_analyst_coverage
    /\ a.stock_structure =
          [get_default_stock_structure EXCEPT !.short_interest = 25,
                                              !.short_squeeze_score = 70]

\* C16 (as stated): for the example snapshot set and the default weights,
\* detection produces at least one short_squeeze_setup signal with
\* strength >= 0.5 and alert synthesis produces an alert whose priority is
\* high or medium.
C16_ExampleGivesSqueezeAlert ==
    (pc = "done" /\ ExampleSnapshots(analysis) /\ weights = DefaultWeights) =>
        /\ \E k \in 1..Len(signals) :
              /\ signals[k].divergence_type = "short_squeeze_setup"
              /\ FloatGeq(signals[k].strength, Tenth(5))
        /\ \E k \in 1..Len(result.alerts) :
              result.alerts[k].priority \in {"high", "medium"}

\* C17: every signal the detectors emit has strength in [0,1] and confidence
\* in [0,1], and every CompositeScore has confidence_level in [0,1].
C17_StrengthAndConfidenceInUnitRange ==
    /\ \A k \in 1..Len(signals) :
          /\ InRange(signals[k].strength, FloatZero, One)
          /\ InRange(signals[k].confidence, FloatZero, One)
    /\ Scored => InRange(composite_score.confidence_level, FloatZero, One)

\* a squeeze signal whose confidence sums 0.6, 0.3 and 0.1 (high utilization
\* and a volume spike) next to a second signal, under a score whose
\* confidence sums all five evidence weights
C17_Witness ==
    /\ pc = "done"
    /\ Len(signals) >= 2
    /\ \E k \in 1..Len(signals) :
          /\ signals[k].divergence_type = "short_squeeze_setup"
          /\ Thousandths(signals[k].confidence) = 1000
          /\ Thousandths(signals[k].strength) > 900
    /\ Thousandths(composite_score.confidence_level) = 960

\* the component scores a CompositeScore stores
StoredScores(cs) ==
    [social |-> cs.social_score, technical |-> cs.technical_score,
     fundamental |-> cs.fundamental_score, analyst |-> cs.analyst_score,
     structure |-> cs.structure_score]

\* C18: the total score of a CompositeScore equals the sum of its five
\* stored component scores, each times its configured weight: as floats
\* multiplied and added in that order, and as decimal values in exact
\* arithmetic; the total computed for the same components with one of them
\* raised (by the least amount, or by a point) is not lower when that
\* component's weight is positive.  The raised totals are computed at the
\* step after score_analysis; no later step assigns composite_score.
C18_TotalIsWeightedSum ==
    Scored =>
        /\ composite_score.total_score =
              FloatAdd(FloatAdd(FloatAdd(FloatAdd(
                  FloatMul(composite_score.social_score, WeightOf(weights.social)),
                  FloatMul(composite_score.technical_score, WeightOf(weights.technical))),
                  FloatMul(composite_score.fundamental_score,
                           WeightOf(weights.fundamental))),
                  FloatMul(composite_score.analyst_score, WeightOf(weights.analyst))),
                  FloatMul(composite_score.structure_score, WeightOf(weights.structure)))
        /\ Rounded(composite_score.total_score, TotalUnit) =
              Rounded(composite_score.social_score, ScoreUnit) * weights.social
              + Rounded(composite_score.technical_score, ScoreUnit) * weights.technical
              + Rounded(composite_score.fundamental_score, ScoreUnit) * weights.fundamental
              + Rounded(composite_score.analyst_score, ScoreUnit) * weights.analyst
              + Rounded(composite_score.structure_score, ScoreUnit) * weights.structure
        /\ \A d \in Domains :
              (pc = "detect" /\ weights[d] > 0
                  /\ ~IsZero(StoredScores(composite_score)[d])) =>
                  /\ FloatGeq(WeightedTotal([StoredScores(composite_score) EXCEPT
                                                ![d] = Above(@)], weights),
                              composite_score.total_score)
                  /\ FloatGeq(WeightedTotal([StoredScores(composite_score) EXCEPT
                                                ![d] = FloatAdd(@, One)], weights),
                              composite_score.total_score)

\* a score computed by the scorers under weights other than the shipped
\* ones, every component contributing
C18_Witness ==
    /\ Scored
    /\ weights # DefaultWeights
    /\ composite_score.opportunity_type # "unknown"
    /\ \A d \in Domains : FloatGreater(StoredScores(composite_score)[d], FloatZero)
    /\ FloatGreater(composite_score.total_score,
                    FloatMul(composite_score.social_score, WeightOf(weights.social)))

\* C19: every signal in the list detect_all_divergences returns carries the
\* symbol of the analysed asset, whichever detectors fire or fail, for every
\* analysis whose analyst snapshot holds a number in price_target_upside,
\* the float the AnalystCoverage record declares.
C19_SignalsCarrySymbol ==
    (Detected /\ analysis.analyst_coverage.price_target_upside # NONE) =>
        \A k \in 1..Len(signals) :
            /\ signals[k].symbol = analysis.symbol
            /\ signals[k].symbol # ""

\* two detectors emitted a signal each after the first two returned without
\* raising, and both signals carry the symbol
C19_Witness ==
    /\ Detected
    /\ analysis.analyst_coverage.price_target_upside # NONE
    /\ Len(signals) = 2
    /\ signals[1].divergence_type # signals[2].divergence_type
    /\ \A k \in 1..2 : signals[k].symbol = "gme"

\* C20: the scoring, detection and alert synthesis steps of analyze_stock
\* leave the five snapshots of the analysis unchanged: every snapshot field
\* has the same value after each of these steps as before it.
C20_SnapshotsUnchanged ==
    [][(pc \in {"score", "detect", "alerts"}) =>
          \A d \in Domains : SnapshotOf(analysis', d) = SnapshotOf(analysis, d)]_vars

\* the three steps ran over provider snapshots holding upper-case keywords
\* and produced a score and an alert, and the analysis returned still holds
\* what the providers returned
C20_Witness ==
    /\ pc = "done"
    /\ raisedBy = {}
    /\ \A d \in Domains : SnapshotOf(result, d) = returned[d]
    /\ result.social_sentiment.top_keywords = << "moon", "SQUEEZE" >>
    /\ result.composite_score.opportunity_type # "unknown"
    /\ Len(result.alerts) > 0

\* C21 (as stated): whenever sentiment > 0.4 and the consensus rating is
\* sell or strong_sell, detect_sentiment_divergence returns one
\* retail_bullish_institutional_bearish signal with strength at most 1 and at
\* least min(sentiment, 1), risk high and expected move -10; whenever
\* sentiment < -0.3 and the consensus is buy or strong_buy it returns one
\* retail_bearish_institutional_bullish signal with expected move
\* 0.7 x price-target upside.
C21_SentimentDivergenceSignals ==
    (fn = "detect_sentiment_divergence" /\ out.done) =>
        /\ (arg.social.sentiment_score > 40 /\ arg.analyst.consensus_rating \in SellRatings) =>
              /\ ~out.value.raises
              /\ Len(out.value.signals) = 1
              /\ out.value.signals[1].divergence_type =
                    "retail_bullish_institutional_bearish"
              /\ Thousandths(out.value.signals[1].strength) <= 1000
              /\ Thousandths(out.value.signals[1].strength)
                    >= Min(arg.social.sentiment_score * 10, 1000)
              /\ out.value.signals[1].risk_level = "high"
              /\ out.value.signals[1].expected_move = FloatOfInt(-10)
        /\ (/\ arg.social.sentiment_score < -30
            /\ arg.analyst.consensus_rating \in BuyRatings
            /\ arg.analyst.price_target_upside # NONE) =>
              /\ ~out.value.raises
              /\ Len(out.value.signals) = 1
              /\ out.value.signals[1].divergence_type =
                    "retail_bearish_institutional_bullish"
              /\ Tenths(out.value.signals[1].expected_move)
                    = 7 * arg.analyst.price_target_upside

\* the squeeze criteria as the claims state them
SqueezeCriteria(social, structure) ==
    /\ structure.short_interest > 15
    /\ social.mentions > 100
    /\ social.sentiment_score > 20

\* C22 (as stated): whenever short interest > 15, mentions > 100 and
\* sentiment > 0.2, detect_squeeze_setup returns exactly one
\* short_squeeze_setup signal whose expected_move is min(2 x short interest,
\* 100), for every value of the other structure fields, shares
\* outstanding = 0 included; otherwise it returns an empty list.
C22_SqueezeSignalWhenCriteriaHold ==
    (fn = "detect_squeeze_setup" /\ out.done) =>
        /\ ~out.value.raises
        /\ IF SqueezeCriteria(arg.social, arg.structure)
           THEN /\ Len(out.value.signals) = 1
                /\ out.value.signals[1].divergence_type = "short_squeeze_setup"
                /\ Tenths(out.value.signals[1].expected_move) =
                      Min(20 * arg.structure.short_interest, 1000)
           ELSE out.value.signals = << >>

\* C23 (as stated): the strength of a short_squeeze_setup signal equals
\* 0.4 x min(short_interest/50, 1) + 0.3 x max(sentiment, 0) + the
\* mention-volume tier + 0.1 if a volume spike is present: the
\* short-interest term grows linearly up to short interest 50.
C23_SqueezeStrengthFormula ==
    (/\ fn = "detect_squeeze_setup" /\ out.done
     /\ ~out.value.raises /\ out.value.signals # << >>) =>
        Thousandths(out.value.signals[1].strength) =
            Min(8 * arg.structure.short_interest, 400)
            + 3 * Max(arg.social.sentiment_score, 0)
            + (IF arg.social.mentions > 500 THEN 200
               ELSE IF arg.social.mentions > 200 THEN 150 ELSE 100)
            + (IF arg.technical.volume_spike THEN 100 ELSE 0)

\* C24 (as stated): an absent optional field contributes 0 points to the
\* factor it feeds; in score_fundamental an absent P/E and an absent P/S
\* contribute 0 to the valuation factor, so a snapshot with no optional
\* field scores 0 and one without P/E and P/S scores at most the 70 points
\* of the growth, profitability and health factors.
C24_AbsentFieldsContributeZero ==
    (fn = "score_fundamental" /\ out.done) =>
        /\ AllOptionalAbsent(arg) => out.value = FloatZero
        /\ (arg.pe_ratio = NONE /\ arg.ps_ratio = NONE) =>
              FloatLeq(out.value, FloatOfInt(70))

\* the value-trap condition as the claim states it, a present field
\* counting whatever its value
ValueTrapCondition(fundamental, analyst) ==
    /\ \/ fundamental.pe_ratio # NONE /\ fundamental.pe_ratio < 15
       \/ fundamental.ps_ratio # NONE /\ fundamental.ps_ratio < 2
    /\ \/ fundamental.revenue_growth_yoy # NONE /\ fundamental.revenue_growth_yoy < -10
       \/ fundamental.profit_margin # NONE /\ fundamental.profit_margin < 0
       \/ analyst.recent_downgrades > analyst.recent_upgrades

\* C25 (as stated): detect_value_trap returns one value_trap signal with
\* expected move -15 exactly when (P/E is present and < 15, or P/S is
\* present and < 2) and (revenue growth < -10, or profit margin < 0, or
\* recent downgrades > recent upgrades), for every present value of these
\* fields, 0 and negative values included; otherwise it returns an empty
\* list.
C25_ValueTrapExactlyWhenConditionHolds ==
    (fn = "detect_value_trap" /\ out.done) =>
        /\ ~out.value.raises
        /\ IF ValueTrapCondition(arg.fundamental, arg.analyst)
           THEN /\ Len(out.value.signals) = 1
                /\ out.value.signals[1].divergence_type = "value_trap"
                /\ out.value.signals[1].expected_move = FloatOfInt(-15)
           ELSE out.value.signals = << >>

\* C26: when all five provider tasks failed, analyze_stock returns an
\* analysis built from the five default snapshots, and under the default
\* weights its component scores are social 27, technical 47, fundamental 9,
\* analyst 23, structure 0, its total 23.75, its risk level "medium", its
\* opportunity type "general", its confidence 0 and its alert list empty.
C26_AllProvidersFailed ==
    (pc = "done" /\ FailedTasks = Domains /\ weights = DefaultWeights) =>
        /\ result.kind = "StockAnalysis"
        /\ result.social_sentiment = get_default_social_sentiment
        /\ result.technical_analysis = get_default_technical_analysis
        /\ result.fundamental_data = get_default_fundamental_data
        /\ result.analyst_coverage = get_default_analyst_coverage
        /\ result.stock_structure = get_default_stock_structure
        /\ result.composite_score.social_score = FloatOfInt(27)
        /\ result.composite_score.technical_score = FloatOfInt(47)
        /\ result.composite_score.fundamental_score = FloatOfInt(9)
        /\ result.composite_score.analyst_score = FloatOfInt(23)
        /\ result.composite_score.structure_score = FloatZero
        /\ result.composite_score.total_score = FloatOfRatio(2375, 100)
        /\ result.composite_score.risk_level = "medium"
        /\ result.composite_score.opportunity_type = "general"
        /\ result.composite_score.confidence_level = FloatZero
        /\ result.alerts = << >>

\* analyze_stock returned after every one of the five tasks had failed
C26_Witness ==
    /\ pc = "done"
    /\ FailedTasks = Domains
    /\ weights = DefaultWeights
    /\ result.kind = "StockAnalysis"
    /\ result.composite_score.kind = "CompositeScore"
    /\ FloatGreater(result.composite_score.total_score, FloatZero)

\* C27 (as stated): whenever the CompositeScore of an analysis returned by
\* analyze_stock has opportunity_type "short_squeeze", the alerts of that
\* analysis contain at least one alert of type short_squeeze_setup.
C27_SqueezeClassifiedImpliesSqueezeAlert ==
    (pc = "done" /\ result.composite_score.opportunity_type = "short_squeeze") =>
        \E k \in 1..Len(result.alerts) :
            result.alerts[k].alert_type = "short_squeeze_setup"

\* C28: every alert of an analysis returned by analyze_stock has
\* chart_image_url equal to the fixed fallback
\* "https://chart-img.com/chart/<SYMBOL in upper case>" and never the
\* alert-specific URL of the chart provider.
C28_AlertsUseFallbackChartUrl ==
    (pc = "done" /\ symbol = "gme") =>
        \A k \in 1..Len(result.alerts) :
            /\ result.alerts[k].chart_image_url = "https://chart-img.com/chart/GME"
            /\ result.alerts[k].chart_image_url #
                  AlertChartUrl(symbol, result.alerts[k].alert_type)

\* an analysis of "gme" was returned with two alerts of different types
C28_Witness ==
    /\ pc = "done"
    /\ symbol = "gme"
    /\ Len(result.alerts) = 2
    /\ result.alerts[1].alert_type # result.alerts[2].alert_type
    /\ result.alerts[2].chart_image_url = "https://chart-img.com/chart/GME"

RequestedSymbols == { symbols[i] : i \in 1..Len(symbols) }

\* the task whose value the zip loop leaves in the entry of a symbol
LastTaskOf(s) ==
    CHOOSE i \in Tasks : symbols[i] = s /\ \A j \in Tasks : symbols[j] = s => j <= i

\* C29: provided every analyze_stock call eventually returns,
\* analyze_multiple_stocks eventually returns; by then no task waits for the
\* semaphore and all permits are back; the result has exactly one entry per
\* distinct requested symbol, each a StockAnalysis or None, and the entry of
\* a symbol is what its own analysis returned, whatever the other analyses
\* returned.
C29_BatchReturnsOneEntryPerSymbol ==
    /\ <>(results # Pending)
    /\ [](results # Pending =>
            /\ DOMAIN results = RequestedSymbols
            /\ \A s \in RequestedSymbols :
                  /\ results[s] \in AnalyzeStockReturns
                  /\ results[s] = analyses[LastTaskOf(s)]
            /\ waiters = << >>
            /\ semaphore_value = semaphore_limit)

\* a batch of five tasks over two symbols has returned; tasks had to wait for
\* a permit; one symbol's analysis failed and the other's did not
C29_Witness ==
    /\ results # Pending
    /\ Len(symbols) = 5
    /\ RequestedSymbols = {"gme", "amc"}
    /\ results["gme"] = "None"
    /\ results["amc"] = "StockAnalysis"
    /\ analyses[1] # analyses[5]
    /\ semaphore_value = semaphore_limit

\* the callers whose wait() returned at a time from start up to, but not
\* including, start + 60 seconds
CompletedInWindow(start) ==
    {c \in Callers : /\ completed_at[c] # NotCompleted
                     /\ completed_at[c] >= start
                     /\ completed_at[c] < start + minute}

\* C30: for a RateLimiter with requests_per_minute = N, whatever the
\* interleaving of the concurrent callers, at most N calls to wait() complete
\* within any 60-second window.
C30_AtMostNCompletePerWindow ==
    \A start \in 0..MaxTime :
        Cardinality(CompletedInWindow(start)) <= requests_per_minute

====
